---- MODULE Spec2Model ----
(***************************************************************************)
(* A model of the user-bucketing pipeline of aws-sagemaker-data-platform:  *)
(* the inference handlers (inference.py), the feature transformer and the  *)
(* preprocessing job (preprocessing.py), the training job (train.py), the  *)
(* evaluation job (evaluate.py) and the ingestion lambda (index.py).       *)
(*                                                                         *)
(* Each component has its own specification over its own variables; the   *)
(* variables of the other components keep their initial value.            *)
(*                                                                         *)
(* Numbers.  Probabilities and the random draw of np.random.random() are   *)
(* integers in percent (0.8 is 80).                                        *)
(***************************************************************************)
EXTENDS Integers, Sequences, FiniteSets, TLC

VARIABLES
    asgIn,      \* assign_experiment: the arguments (prediction, high_value_prob)
    asgOut,     \* assign_experiment: the assignments returned so far, one per call
    trainX,     \* transformer: the DataFrame fit is called on
    transformer,\* transformer: the FeatureEngineeringTransformer object (self)
    fits,       \* transformer: the number of fit calls made
    tfLog,      \* transformer: the transform calls made: the input, the DataFrame
                \* after _encode_features (preprocessing.py:62) and the output
    ppPc,       \* preprocess_data: the position in the job
    inputCsv,   \* preprocess_data: the rows of the input CSV (<<>>: no CSV file)
    ppData,     \* preprocess_data: X_raw and y (preprocessing.py:154-155)
    ppSplit,    \* preprocess_data: the row positions of the train, validation and
                \* test splits (preprocessing.py:160-166)
    feature_transformer, \* preprocess_data: the transformer (preprocessing.py:143)
    ppScaled,   \* preprocess_data: X_train_scaled, X_val_scaled, X_test_scaled
    ppCalls,    \* preprocess_data: the calls made on the transformer, in order
    ppFiles,    \* preprocess_data: the files written
    files,      \* train_model, evaluate_model: the files of the channels, the model
                \* directory and the evaluation directory, by name
    model_type, \* train_model: --model_type
    trainPc,    \* train_model: "start", "done", or the exception it ended with
    evalPc,     \* evaluate_model: "start", "metrics_written", "done", or the
                \* exception it ended with
    scored,     \* the scoring calls made by train_model and evaluate_model
    modelPkl,   \* inference: what model_dir/model.pkl holds
    request,    \* inference: the request: content type and body
    infPc,      \* inference: the handler reached, or the one that raised
    infModel,   \* inference: the model model_fn returned
    input_data, \* inference: the DataFrame input_fn returned
    modelOut,   \* inference: predictions and probabilities (inference.py:98-99)
    results,    \* inference: the list predict_fn returned
    infError,   \* inference: the exception raised
    response,   \* inference: what output_fn returned
    environ,    \* ingestion: the Lambda's environment variables
    invocations,\* ingestion: the invocations made
    clock,      \* ingestion: datetime.now() of the latest invocation, in seconds
    invoked,    \* ingestion: the latest invocation's event and outcome
    s3Objects,  \* ingestion: the objects in S3, by bucket and key
    selIn,      \* dataset selection: the event, the environment and the world
    selOut,     \* dataset selection: the dataset type chosen and what data holds
    valIn,      \* _validate_input_data: the DataFrame it is called on
    valOut,     \* _validate_input_data: the exception raised, if any
    catalog,    \* Glue job: the catalog tables sales, customers and products
    glPc,       \* Glue job: the next step of main, or how the script ended
    glLocal,    \* Glue job: the DataFrames main holds, by variable name
    glSteps,    \* Glue job: the steps completed, in order
    curated,    \* Glue job: the tables written to the curated bucket, in order
    committed   \* Glue job: whether job.commit() was called

asgVars == <<asgIn, asgOut>>

tfVars == <<trainX, transformer, fits, tfLog>>

ppVars == <<ppPc, inputCsv, ppData, ppSplit, feature_transformer, ppScaled, ppCalls,
            ppFiles>>

trVars == <<files, model_type, trainPc, evalPc, scored>>

vars == <<asgIn, asgOut, trainX, transformer, fits, tfLog,
          ppPc, inputCsv, ppData, ppSplit, feature_transformer, ppScaled, ppCalls,
          ppFiles, files, model_type, trainPc, evalPc, scored,
          modelPkl, request, infPc, infModel, input_data, modelOut, results,
          infError, response, environ, invocations, clock, invoked, s3Objects,
          selIn, selOut, valIn, valOut,
          catalog, glPc, glLocal, glSteps, curated, committed>>

infVars == <<modelPkl, request, infPc, infModel, input_data, modelOut, results,
             infError, response>>

ingVars == <<environ, invocations, clock, invoked, s3Objects>>

selVars == <<selIn, selOut>>

valVars == <<valIn, valOut>>

glVars == <<catalog, glPc, glLocal, glSteps, curated, committed>>

\* The value of a variable that holds nothing yet (Python's None).
None == "None"

(***************************************************************************)
(* inference.py: assign_experiment                                         *)
(***************************************************************************)

\* inference.py:130  high_value_prob > 0.8, in percent
HighValueProbThreshold == 80

\* inference.py:143  high_value_prob > 0.3, in percent
PotentialProbThreshold == 30

\* inference.py:133  np.random.random() > 0.5, in percent
VariantDrawThreshold == 50

\* The calls of assign_experiment followed for one pair of arguments.
MaxAssignCalls == 2

\* Class labels a binary classifier predicts (the target is 0 or 1).
Predictions == {0, 1}

\* Probabilities in percent, in steps of 5: both thresholds, and both sides of each.
ProbGrid == {5 * k : k \in 0..20}

\* Values of np.random.random() in percent: below, at and above the threshold
\* (np.random.random() draws from [0, 1), so 100 is not among them).
Draws == {10, 50, 90}

\* inference.py:133  'A' if np.random.random() > 0.5 else 'B'
Variant(draw) == IF draw > VariantDrawThreshold THEN "A" ELSE "B"

\* assign_experiment with the thresholds compared with >= where the code has >.
assign_experiment_AtThreshold(prediction, high_value_prob, draw) ==
    IF prediction = 1
    THEN IF high_value_prob >= HighValueProbThreshold
         THEN [experiment_type |-> "premium_features",
               variant |-> Variant(draw), priority |-> "high"]
         ELSE [experiment_type |-> "engagement_boost",
               variant |-> Variant(draw), priority |-> "medium"]
    ELSE IF high_value_prob >= PotentialProbThreshold
         THEN [experiment_type |-> "conversion_optimization",
               variant |-> Variant(draw), priority |-> "medium"]
         ELSE [experiment_type |-> "basic_features",
               variant |-> Variant(draw), priority |-> "low"]

\* inference.py:125-154; draw is the value np.random.random() returns in the
\* branch taken (each branch draws exactly once).
assign_experiment(prediction, high_value_prob, draw) ==
    IF prediction = 1
    THEN IF high_value_prob > HighValueProbThreshold
         THEN [experiment_type |-> "premium_features",
               variant |-> Variant(draw), priority |-> "high"]
         ELSE [experiment_type |-> "engagement_boost",
               variant |-> Variant(draw), priority |-> "medium"]
    ELSE IF high_value_prob > PotentialProbThreshold
         THEN [experiment_type |-> "conversion_optimization",
               variant |-> Variant(draw), priority |-> "medium"]
         ELSE [experiment_type |-> "basic_features",
               variant |-> Variant(draw), priority |-> "low"]

(***************************************************************************)
(* preprocessing.py: FeatureEngineeringTransformer                         *)
(*                                                                         *)
(* A DataFrame is a sequence of rows, a row a function from column names   *)
(* to values.  Amounts, counts and ages are integers; engagement_score and *)
(* historical_conversion_rate are in percent; the two ratios the           *)
(* transformer computes (spend_per_purchase, session_efficiency) are kept  *)
(* in tenths, truncated.      A scaled value (x - mean) / scale is kept    *)
(* exactly, as the pair num, den2 with value num / sqrt(den2).             *)
(***************************************************************************)

\* A missing numeric value (numpy's nan): no number of the model.
NaN == 0 - (10 ^ 9)

\* preprocessing.py:94  np.inf: above every amount of the model.
Infinity == 10 ^ 9

IsNaN(x) == x = NaN

\* preprocessing.py:150-152 (inference.py:39-43 lists the same ten, in the same order)
BaseFeatures ==
    <<"age", "session_count", "avg_session_duration", "page_views",
      "purchase_history", "total_spent", "engagement_score",
      "historical_conversion_rate", "gender", "location">>

\* preprocessing.py:35 and :102
CategoricalFeatures == <<"gender", "location", "age_group", "spending_tier">>

\* preprocessing.py:42-47
FeatureColumns ==
    <<"age", "session_count", "avg_session_duration", "page_views",
      "purchase_history", "total_spent", "engagement_score",
      "historical_conversion_rate", "spend_per_purchase", "session_efficiency",
      "gender_encoded", "location_encoded", "age_group_encoded",
      "spending_tier_encoded">>

\* preprocessing.py:108 and :113  f'{feature}_encoded'
EncodedName(feature) ==
    CASE feature = "gender" -> "gender_encoded"
      [] feature = "location" -> "location_encoded"
      [] feature = "age_group" -> "age_group_encoded"
      [] feature = "spending_tier" -> "spending_tier_encoded"

\* preprocessing.py:88 and :90
AgeBins == <<0, 25, 35, 50, 100>>
AgeLabels == <<"young", "adult", "middle_aged", "senior">>

\* preprocessing.py:94 and :96
SpendingBins == <<0 - 1, 0, 50, 200, Infinity>>
SpendingLabels == <<"none", "low", "medium", "high">>

\* The strings of the model in Python's string order (by code point: upper case
\* first), the order np.unique sorts LabelEncoder.classes_ in.
StrOrder ==
    <<"AU", "CA", "DE", "F", "FR", "M", "O", "Other", "UK", "US",
      "adult", "female", "high", "low", "male", "medium", "middle_aged",
      "nan", "none", "other", "senior", "young">>

Range(s) == {s[i] : i \in DOMAIN s}

IndexOf(s, x) == CHOOSE i \in DOMAIN s : s[i] = x

\* df[col] = v (a new column, or an existing one overwritten)
SetCol(row, col, v) ==
    [c \in (DOMAIN row) \cup {col} |-> IF c = col THEN v ELSE row[c]]

\* df.columns (every row of a DataFrame has the same columns)
Columns(df) == IF df = <<>> THEN {} ELSE DOMAIN df[1]

RECURSIVE InsertSorted(_, _)
InsertSorted(x, s) ==
    IF s = <<>> THEN <<x>>
    ELSE IF x <= Head(s) THEN <<x>> \o s
    ELSE <<Head(s)>> \o InsertSorted(x, Tail(s))

RECURSIVE SortAscending(_)
SortAscending(s) ==
    IF s = <<>> THEN <<>> ELSE InsertSorted(Head(s), SortAscending(Tail(s)))

\* preprocessing.py:75-76  x > series.quantile(q), q in tenths.  pandas skips nan,
\* and interpolates linearly between the two order statistics around position
\* q * (n - 1); both sides are multiplied by 10 to stay in the integers.
AboveQuantile(x, series, qTenths) ==
    LET present == SelectSeq(series, LAMBDA v : ~IsNaN(v))
        sorted == SortAscending(present)
        n == Len(sorted)
        pos == qTenths * (n - 1)
        lo == (pos \div 10) + 1
        frac == pos % 10
        q10 == IF frac = 0 THEN 10 * sorted[lo]
               ELSE 10 * sorted[lo] + frac * (sorted[lo + 1] - sorted[lo])
    IN IF n = 0 \/ IsNaN(x) THEN FALSE ELSE 10 * x > q10

ColumnOf(df, col) == [i \in DOMAIN df |-> df[i][col]]

\* The flag of a row above either quantile.
HighValueFlag_EitherAbove(df, i) ==
    IF \/ AboveQuantile(df[i]["engagement_score"], ColumnOf(df, "engagement_score"), 7)
       \/ AboveQuantile(df[i]["total_spent"], ColumnOf(df, "total_spent"), 6)
    THEN 1 ELSE 0

\* preprocessing.py:74-77 and :145-148  the high-value flag of row i of df
HighValueFlag(df, i) ==
    IF /\ AboveQuantile(df[i]["engagement_score"], ColumnOf(df, "engagement_score"), 7)
       /\ AboveQuantile(df[i]["total_spent"], ColumnOf(df, "total_spent"), 6)
    THEN 1 ELSE 0

\* preprocessing.py:80-81  np.where(purchase_history > 0, total_spent / purchase_history, 0)
SpendPerPurchase(row) ==
    IF IsNaN(row["purchase_history"]) THEN 0
    ELSE IF row["purchase_history"] > 0
         THEN IF IsNaN(row["total_spent"]) THEN NaN
              ELSE (row["total_spent"] * 10) \div row["purchase_history"]
         ELSE 0

\* preprocessing.py:84  page_views / np.maximum(session_count, 1)
\* (np.maximum propagates nan)
SessionEfficiency(row) ==
    IF IsNaN(row["page_views"]) \/ IsNaN(row["session_count"]) THEN NaN
    ELSE (row["page_views"] * 10)
            \div (IF row["session_count"] > 1 THEN row["session_count"] ELSE 1)

\* pd.cut with right=False: left-closed bins.
Cut_LeftClosed(x, bins, labels) ==
    LET hits == {i \in 1..(Len(bins) - 1) : bins[i] <= x /\ x < bins[i + 1]}
    IN IF IsNaN(x) \/ hits = {} THEN "nan" ELSE labels[CHOOSE i \in hits : TRUE]

\* preprocessing.py:89-90 and :95-96  pd.cut(x, bins, labels): right-closed bins;
\* a value in no bin (or nan) has no category, which astype(str) prints 'nan'.
Cut(x, bins, labels) ==
    LET hits == {i \in 1..(Len(bins) - 1) : bins[i] < x /\ x <= bins[i + 1]}
    IN IF IsNaN(x) \/ hits = {} THEN "nan" ELSE labels[CHOOSE i \in hits : TRUE]

\* preprocessing.py:22-27  __init__: nothing fitted (an empty tuple is None)
NewTransformer ==
    [label_encoders |-> <<>>, scaler |-> <<>>, feature_columns |-> <<>>,
     age_bins |-> <<>>, spending_bins |-> <<>>]

\* preprocessing.py:70-98  _create_engineered_features: the DataFrame with the
\* engineered columns, and self with the bins it sets when they are None.
EngineeredSelf(self) ==
    [self EXCEPT !.age_bins = IF @ = <<>> THEN AgeBins ELSE @,
                 !.spending_bins = IF @ = <<>> THEN SpendingBins ELSE @]

\* One row after preprocessing.py:73-96: high_value_user when the DataFrame has
\* both columns it is computed from, then the four columns always assigned (an
\* assignment to an existing column overwrites it; none of the five is read by a
\* later assignment, so each is computed from the row as it came).
EngineeredRow(self, df, i) ==
    LET s == EngineeredSelf(self)
        row == df[i]
        flagged == {"engagement_score", "total_spent"} \subseteq Columns(df)
        added == {"spend_per_purchase", "session_efficiency", "age_group", "spending_tier"}
                    \cup (IF flagged THEN {"high_value_user"} ELSE {})
    IN [c \in (DOMAIN row) \cup added |->
           CASE c = "high_value_user" /\ flagged -> HighValueFlag(df, i)
             [] c = "spend_per_purchase" -> SpendPerPurchase(row)
             [] c = "session_efficiency" -> SessionEfficiency(row)
             [] c = "age_group" -> Cut(row["age"], s.age_bins, AgeLabels)
             [] c = "spending_tier" -> Cut(row["total_spent"], s.spending_bins, SpendingLabels)
             [] OTHER -> row[c]]

_create_engineered_features(self, df) ==
    [i \in DOMAIN df |-> EngineeredRow(self, df, i)]

\* preprocessing.py:38-39  LabelEncoder().fit(column.astype(str)): classes_ is the
\* sorted sequence of the distinct values.
LabelEncoderFit(values) ==
    SelectSeq(StrOrder, LAMBDA c : c \in Range(values))

\* The values of a column that occur most often in it.
MostFrequent(values) ==
    LET count(c) == Cardinality({i \in DOMAIN values : values[i] = c})
    IN {c \in Range(values) : \A d \in Range(values) : count(d) <= count(c)}

\* le.transform([x])[0]: the position of x in classes_, from 0
LabelCode(classes, x) == IndexOf(classes, x) - 1

\* preprocessing.py:109  le.transform([x])[0] if x in le.classes_
\*                       else le.transform([le.classes_[0]])[0]
EncodeValue(classes, x) ==
    IF x \in Range(classes) THEN LabelCode(classes, x) ELSE LabelCode(classes, classes[1])

\* preprocessing.py:104-113  the encoded columns one row gets: for each
\* categorical feature among the columns, its code under the fitted encoder, or 0
\* when no encoder was fitted for it.
EncodedRow(self, row) ==
    LET present == {f \in Range(CategoricalFeatures) : f \in DOMAIN row}
        source(c) == CHOOSE f \in present : EncodedName(f) = c
    IN [c \in (DOMAIN row) \cup {EncodedName(f) : f \in present} |->
           IF \E f \in present : EncodedName(f) = c
           THEN IF source(c) \in DOMAIN self.label_encoders
                THEN EncodeValue(self.label_encoders[source(c)], row[source(c)])
                ELSE 0
           ELSE row[c]]

\* preprocessing.py:100-115
_encode_features(self, df) == [i \in DOMAIN df |-> EncodedRow(self, df[i])]

\* df[self.feature_columns] without fillna(0).
SelectFeatures_NoFill(self, df) ==
    [i \in DOMAIN df |-> [c \in Range(self.feature_columns) |-> df[i][c]]]

\* preprocessing.py:50 and :64  df[self.feature_columns].fillna(0)
SelectFeatures(self, df) ==
    [i \in DOMAIN df |->
        [c \in Range(self.feature_columns) |-> IF IsNaN(df[i][c]) THEN 0 ELSE df[i][c]]]

RECURSIVE SumSeq(_)
SumSeq(s) == IF s = <<>> THEN 0 ELSE Head(s) + SumSeq(Tail(s))

\* preprocessing.py:52  StandardScaler().fit(X): per column the mean and the
\* standard deviation, kept as the count, the sum and the sum of squares.
ScalerFit(columns, X) ==
    [c \in columns |->
        [n |-> Len(X),
         sum |-> SumSeq([i \in DOMAIN X |-> X[i][c]]),
         sumsq |-> SumSeq([i \in DOMAIN X |-> X[i][c] * X[i][c]])]]

\* preprocessing.py:66  scaler.transform: (x - mean_) / scale_, where scale_ is the
\* standard deviation, or 1 for a constant column.  With D = n * sumsq - sum^2,
\* the value is (n * x - sum) / sqrt(D), or (n * x - sum) / sqrt(n^2) when D = 0.
\* A nan stays nan: num is NaN.
ScaleValue(p, x) ==
    LET d == p.n * p.sumsq - p.sum * p.sum
    IN IF IsNaN(x) THEN [num |-> NaN, den2 |-> 1]
       ELSE [num |-> p.n * x - p.sum, den2 |-> IF d = 0 THEN p.n * p.n ELSE d]

ScalerTransform(scaler, X) ==
    [i \in DOMAIN X |-> [c \in DOMAIN X[i] |-> ScaleValue(scaler[c], X[i][c])]]

\* preprocessing.py:29-54  fit: self after fit(X)
fit(self, X) ==
    LET s1 == EngineeredSelf(self)
        df == _create_engineered_features(self, X)
        les == [f \in (DOMAIN s1.label_encoders)
                        \cup (Range(CategoricalFeatures) \cap Columns(df)) |->
                   IF f \in Columns(df)
                   THEN LabelEncoderFit(ColumnOf(df, f))
                   ELSE s1.label_encoders[f]]
        s2 == [s1 EXCEPT !.label_encoders = les, !.feature_columns = FeatureColumns]
        X_final == SelectFeatures(s2, _encode_features(s2, df))
    IN [s2 EXCEPT !.scaler = ScalerFit(Range(FeatureColumns), X_final)]

\* transform with the scaler fitted again on the DataFrame it is given
\* (scaler.fit_transform where the code has scaler.transform).
transform_RefitScaler(self, X) ==
    LET df == _encode_features(self, _create_engineered_features(self, X))
        X_final == SelectFeatures(self, df)
    IN ScalerTransform(ScalerFit(Range(self.feature_columns), X_final), X_final)

\* preprocessing.py:56-68  transform: the DataFrame returned (self is fitted, so
\* _create_engineered_features finds the bins set and leaves self as it is)
transform(self, X) ==
    LET df == _encode_features(self, _create_engineered_features(self, X))
    IN ScalerTransform(self.scaler, SelectFeatures(self, df))

\* transform working on the caller's DataFrame itself: the engineered and
\* encoded columns are added to it.
CallerFrame_NoCopy(self, X) == _encode_features(self, _create_engineered_features(self, X))

\* preprocessing.py:58  df = X.copy(): every assignment of transform and of the
\* two helpers is to the copy, so the caller's DataFrame is after the call what
\* it was before.
CallerFrame(self, X) == X

\* preprocessing.py:60  self after transform: _create_engineered_features sets
\* the bins when they are None (86-87, 92-93); nothing else of self is assigned.
TransformSelf(self) == EngineeredSelf(self)

\* preprocessing.py:68  pd.DataFrame(X_scaled, columns=self.feature_columns,
\* index=X.index): the columns of the output in order, and its index
OutputColumns(self) == self.feature_columns

OutputIndex(index) == index

\* preprocessing.py:56-68  one call transform(X) on self, X having the given
\* index: what the call returns and what it leaves behind
TransformCall(self, X, index) ==
    [self |-> self,
     X |-> X,
     index |-> index,
     encoded |-> _encode_features(self, _create_engineered_features(self, X)),
     out |-> transform(self, X),
     out_columns |-> OutputColumns(self),
     out_index |-> OutputIndex(index),
     X_after |-> CallerFrame(self, X),
     self_after |-> TransformSelf(self)]

\* A user row: the ten base features.
User(age, sessions, duration, views, purchases, spent, engagement, rate, gender, location) ==
    [age |-> age, session_count |-> sessions, avg_session_duration |-> duration,
     page_views |-> views, purchase_history |-> purchases, total_spent |-> spent,
     engagement_score |-> engagement, historical_conversion_rate |-> rate,
     gender |-> gender, location |-> location]

\* Users as index.py:68-145 generates them (ages 18 to 80; genders M, F, Other;
\* the six locations; total_spent 0 without a purchase).
UserPool ==
    <<User(22, 10, 300, 20, 0, 0, 20, 0, "M", "US"),
      User(35, 20, 450, 35, 5, 250, 75, 40, "F", "UK"),
      User(50, 15, 200, 25, 2, 50, 55, 50, "M", "US"),
      User(64, 30, 600, 60, 8, 900, 95, 100, "M", "DE"),
      User(25, 0, 100, 7, 3, 120, 40, 33, "Other", "CA"),
      User(41, 12, 240, 30, 1, 200, 60, 0, "F", "US"),
      User(18, 25, 500, 45, 6, 400, 85, 50, "F", "AU"),
      User(80, 5, 60, 10, 0, 0, 10, 0, "M", "FR"),
      User(30, 18, 350, 28, 4, 300, 70, 25, "F", "US"),
      User(45, 22, 420, 40, 2, 150, 65, 100, "M", "UK"),
      User(55, 8, 150, 15, 1, 30, 30, 0, "F", "CA")>>

\* Rows a request may hold (inference.py:62-72 accepts ages 0 to 120 and any
\* gender and location string).
RequestPool ==
    <<User(35, 20, 450, 35, 5, 250, 75, 40, "female", "US"),
      User(0, 1, 60, 2, 0, 0, 0, 0, "M", "FR"),
      User(120, 3, 90, 9, 4, 51, 100, 100, "Other", "AU"),
      User(22, 10, 300, 20, 0, 0, 20, 0, "M", "US"),
      User(NaN, 40, 500, 80, 2, 201, 80, 50, "F", "UK")>>

\* The rows of pool whose positions are in S, in the pool's order.
SubFrame(pool, S) ==
    LET idx == SelectSeq([i \in 1..Len(pool) |-> i], LAMBDA i : i \in S)
    IN [k \in 1..Len(idx) |-> pool[idx[k]]]

\* The rows of the DataFrame fit is called on.
TrainRows == 3

\* The rows of a DataFrame transform is called on, at most.
MaxBatchRows == 2

\* The transform calls followed, and the fit calls.
MaxTransforms == 2
MaxFits == 2

\* Training DataFrames: TrainRows consecutive users of the pool.
TrainFrames ==
    {SubFrame(UserPool, i..(i + TrainRows - 1)) : i \in 1..(Len(UserPool) - TrainRows + 1)}

\* The positions in S in ascending order.
Ascending(S, n) == SelectSeq([i \in 1..n |-> i], LAMBDA i : i \in S)

\* The rows of the request pool a DataFrame to transform holds: up to
\* MaxBatchRows of them.  Their positions in the pool are the DataFrame's index.
BatchPositions ==
    {T \in SUBSET (1..Len(RequestPool)) : T # {} /\ Cardinality(T) <= MaxBatchRows}

IsFitted(self) == self.feature_columns # <<>>

(***************************************************************************)
(* preprocessing.py: preprocess_data                                       *)
(*                                                                         *)
(* A dataset is a record X (a DataFrame), y (the targets, row by row) and  *)
(* features: "raw" for the ten base features, "processed" for the          *)
(* transformer's output.  to_csv(index=False) and read_csv keep the rows,  *)
(* their order and these values, and drop the index, which the model does  *)
(* not keep either.                                                        *)
(***************************************************************************)

\* The rows of the input CSV.
NumUsers == 10

\* Input CSVs: NumUsers consecutive users of the pool.
InputFrames ==
    {SubFrame(UserPool, i..(i + NumUsers - 1)) : i \in 1..(Len(UserPool) - NumUsers + 1)}

\* preprocessing.py:145-148  high_value_user over the whole input
HighValueLabels(df) == [i \in DOMAIN df |-> HighValueFlag(df, i)]

\* preprocessing.py:154  df[base_features]
SelectBase(df) == [i \in DOMAIN df |-> [c \in Range(BaseFeatures) |-> df[i][c]]]

\* preprocessing.py:160-162  test_size=0.2: ceil(0.2 * n) rows go to the test split
TestSize(n) == (2 * n + 9) \div 10

\* preprocessing.py:164-166  test_size=0.25 of the rest: ceil(0.25 * m) rows
ValidationSize(n) == ((n - TestSize(n)) + 3) \div 4

\* preprocessing.py:160-166  the splits train_test_split may return for n rows:
\* the test rows, then the validation rows among the rest, of the sizes the two
\* test_size values give.  Which rows go where is scikit-learn's shuffle (under
\* stratify=y), left open here; rows are kept in input order within a split.
Splits(n) ==
    {[train |-> Ascending((1..n) \ (T \cup V), n),
      validation |-> Ascending(V, n),
      test |-> Ascending(T, n)] :
        T \in {A \in SUBSET (1..n) : Cardinality(A) = TestSize(n)},
        V \in {B \in SUBSET (1..n) : Cardinality(B) = ValidationSize(n)}}

\* A split that is no split: some row is in two parts.
Disjoint(sp) == Range(sp.test) \cap Range(sp.validation) = {}

\* X.iloc[positions], y.iloc[positions]
TakeRows(X, positions) == [k \in DOMAIN positions |-> X[positions[k]]]

SplitNames == <<"train", "validation", "test">>

\* The DataFrame of the whole input, where the code passes X_raw_train.
FitInput_WholeInput(data, split) == data.X

\* preprocessing.py:173  the argument of feature_transformer.fit: X_raw_train
FitInput(data, split) == TakeRows(data.X, split.train)

\* preprocessing.py:186-211  the files preprocess_data writes, by name
PreprocessFiles(data, split, fitted, scaled) ==
    ("train.csv" :> [X |-> scaled["train"],
                     y |-> TakeRows(data.y, split.train), features |-> "processed"])
    @@ ("validation.csv" :> [X |-> scaled["validation"],
                             y |-> TakeRows(data.y, split.validation),
                             features |-> "processed"])
    @@ ("test.csv" :> [X |-> scaled["test"],
                       y |-> TakeRows(data.y, split.test), features |-> "processed"])
    @@ ("feature_transformer.pkl" :> fitted)
    @@ ("raw_train.csv" :> [X |-> TakeRows(data.X, split.train),
                            y |-> TakeRows(data.y, split.train), features |-> "raw"])
    @@ ("raw_validation.csv" :> [X |-> TakeRows(data.X, split.validation),
                                 y |-> TakeRows(data.y, split.validation),
                                 features |-> "raw"])

\* preprocessing.py:143-211  the files one run of preprocess_data writes for an
\* input CSV and a split
PreprocessOutput(input, split) ==
    LET data == [X |-> SelectBase(input), y |-> HighValueLabels(input)]
        fitted == fit(NewTransformer, FitInput(data, split))
        scaled == [name \in Range(SplitNames) |->
                      transform(fitted, TakeRows(data.X, split[name]))]
    IN PreprocessFiles(data, split, fitted, scaled)

(***************************************************************************)
(* train.py: train_model, and evaluate.py: evaluate_model                  *)
(*                                                                         *)
(* The jobs see one directory tree: the training and validation channels   *)
(* hold what preprocess_data wrote there (some of it possibly not staged), *)
(* the test path holds test.csv, and evaluate_model reads the model        *)
(* directory train_model wrote.  What a fitted classifier predicts is      *)
(* scikit-learn's; the model keeps what it was fitted on and records every *)
(* scoring call: the job, the kind of model, the file scored and how often *)
(* the feature transformation has been applied to the rows the classifier  *)
(* receives.  Metrics are in percent.                                      *)
(***************************************************************************)

\* evaluate.py:104-107
MinAccuracy == 75
MinPrecision == 70
MinRecall == 65
MinAuc == 80

\* train.py:31  choices of --model_type
ModelTypes == {"random_forest", "logistic_regression"}

\* The files of the training and validation channels train_model can do without.
OptionalFiles == {"raw_train.csv", "raw_validation.csv", "feature_transformer.pkl"}

\* f restricted to the names in S
Restrict(f, S) == [n \in S |-> f[n]]

\* f with name n holding v
WithFile(f, n, v) == [m \in (DOMAIN f) \cup {n} |-> IF m = n THEN v ELSE f[m]]

\* Whether targets y hold both classes (roc_auc_score raises ValueError otherwise:
\* train.py:116, evaluate.py:54).
BothClasses(y) == {0, 1} \subseteq Range(y)

\* Two splits of the labelled rows of the sizes train_test_split gives: in
\* "stratified" every part holds a high-value user; in "skewed" the validation
\* part holds none (stratification is approximate on few rows).
TrainingSplits(y) ==
    LET n == Len(y)
        hv == SelectSeq([i \in 1..n |-> i], LAMBDA i : y[i] = 1)
        lo == SelectSeq([i \in 1..n |-> i], LAMBDA i : y[i] = 0)
        nt == TestSize(n)
        nv == ValidationSize(n)
        T == {hv[1]} \cup {lo[k] : k \in 1..(nt - 1)}
        V1 == {hv[2]} \cup {lo[k] : k \in nt..(nt + nv - 2)}
        V2 == {lo[k] : k \in nt..(nt + nv - 1)}
    IN {[train |-> Ascending((1..n) \ (T \cup V), n),
         validation |-> Ascending(V, n),
         test |-> Ascending(T, n)] : V \in {V1, V2}}

\* train.py:50-63  use_pipeline
UsePipeline(fs) == "raw_train.csv" \in DOMAIN fs /\ "raw_validation.csv" \in DOMAIN fs

\* train.py:86  os.path.exists(feature_transformer_path) and use_pipeline
BuildsPipeline(fs) == "feature_transformer.pkl" \in DOMAIN fs /\ UsePipeline(fs)

\* train.py:72-83
ClassifierFor(mtype) ==
    IF mtype = "random_forest" THEN "RandomForestClassifier"
    ELSE "LogisticRegression"

\* train_model saving the bare classifier on both paths (train.py:145 in place
\* of train.py:142).
FittedModel_ClassifierOnly(fs, mtype) ==
    [kind |-> "Classifier",
     preprocessing |-> <<>>,
     classifier |-> ClassifierFor(mtype),
     fitted_on |-> IF BuildsPipeline(fs) THEN "raw_train.csv" ELSE "train.csv",
     classes |-> Range(fs["train.csv"].y)]

\* train.py:86-108  the object train_model fits: a Pipeline of the loaded
\* transformer (which Pipeline.fit fits again, on X_train_raw) and the classifier,
\* fitted on the raw training features; or the classifier alone, fitted on the
\* processed train.csv.
FittedModel(fs, mtype) ==
    IF BuildsPipeline(fs)
    THEN [kind |-> "Pipeline",
          preprocessing |-> fit(fs["feature_transformer.pkl"], fs["raw_train.csv"].X),
          classifier |-> ClassifierFor(mtype),
          fitted_on |-> "raw_train.csv",
          classes |-> Range(fs["raw_train.csv"].y)]
    ELSE [kind |-> "Classifier",
          preprocessing |-> <<>>,
          classifier |-> ClassifierFor(mtype),
          fitted_on |-> "train.csv",
          classes |-> Range(fs["train.csv"].y)]

\* The times the feature transformation has been applied to the rows the
\* classifier of model m receives when m scores dataset d: once already if d is
\* processed, and once more by the pipeline's preprocessing step.
TransformsApplied(m, d) ==
    (IF d.features = "processed" THEN 1 ELSE 0) + (IF m.kind = "Pipeline" THEN 1 ELSE 0)

\* A scoring call: model.predict / predict_proba on a file's features.
ScoringCall(job, m, name, d) ==
    [job |-> job, model |-> m.kind, file |-> name, features |-> d.features,
     transforms |-> TransformsApplied(m, d)]

\* train.py:98-99 and :107-108  the file train_model scores
TrainScoredFile(fs) == IF BuildsPipeline(fs) THEN "raw_validation.csv" ELSE "validation.csv"

\* evaluate.py:40-48  the file evaluate_model scores
EvalScoredFile == "test.csv"

\* evaluate.py:109-128  the approval recommendation for metrics in percent
Recommendation(m) ==
    LET criteria == [accuracy_pass |-> m.accuracy >= MinAccuracy,
                     precision_pass |-> m.precision >= MinPrecision,
                     recall_pass |-> m.recall >= MinRecall,
                     auc_pass |-> m.auc >= MinAuc]
        all_criteria_met == \A k \in DOMAIN criteria : criteria[k]
    IN [approve_model |-> all_criteria_met,
        approval_criteria |-> criteria,
        recommendation_reason |-> IF all_criteria_met THEN "All criteria met"
                                  ELSE "Some criteria not met"]

\* evaluate.py:50-54  what the metric functions of scikit-learn return: Python
\* floats, or numpy.float64 values, depending on the release installed.
MetricTypes == {"float", "numpy.float64"}

\* evaluate.py:130-131  what json.dump leaves in model_approval.json.  A comparison
\* of a numpy.float64 gives a numpy.bool_, which json cannot serialize: json.dump
\* raises TypeError at the first value of approval_criteria, after the text before
\* it has been written to the file.
DumpedRecommendation(recommendation, metric_type) ==
    IF metric_type = "numpy.float64"
    THEN [raised |-> "TypeError",
          content |-> [truncated |-> TRUE,
                       approve_model |-> recommendation.approve_model]]
    ELSE [raised |-> "",
          content |-> [truncated |-> FALSE,
                       approve_model |-> recommendation.approve_model,
                       approval_criteria |-> recommendation.approval_criteria,
                       recommendation_reason |-> recommendation.recommendation_reason]]

\* Metrics evaluate_model may compute: each just below or at its threshold.
MetricGrid ==
    [accuracy : {MinAccuracy - 1, MinAccuracy},
     precision : {MinPrecision - 1, MinPrecision},
     recall : {MinRecall - 1, MinRecall},
     auc : {MinAuc - 1, MinAuc}]

(***************************************************************************)
(* inference.py: model_fn, input_fn, _validate_input_data, predict_fn,     *)
(* output_fn                                                               *)
(*                                                                         *)
(* The serving container calls model_fn once, then input_fn, predict_fn    *)
(* and output_fn on a request.  A JSON value is a record with one field:   *)
(* num (a number, in the model's units), str (a string) or nan (the cell   *)
(* pandas leaves where a record lacks a key another record has).           *)
(***************************************************************************)

\* The records of a list body, at most.
MaxRows == 2

JNum(n) == [num |-> n]
JStr(t) == [str |-> t]
JNaN == [nan |-> TRUE]
JBool(b) == [bool |-> b]
JNull == [null |-> TRUE]

\* A user row as a JSON object.
JsonUser(row) ==
    [c \in DOMAIN row |-> IF c \in {"gender", "location"} THEN JStr(row[c])
                          ELSE JNum(row[c])]

\* A JSON object with key k holding v, and without the keys in K.
JsonWith(obj, k, v) == [c \in (DOMAIN obj) \cup {k} |-> IF c = k THEN v ELSE obj[c]]
JsonWithout(obj, K) == [c \in (DOMAIN obj) \ K |-> obj[c]]

\* inference.py:166-177  sample_input, with a key the handler does not ask for
SampleInput == JsonWith(JsonUser(RequestPool[1]), "user_id", JStr("user_000001"))

\* The JSON objects a request body is made of: the sample; a record on the
\* boundaries (age 120, engagement 1.0, gender 'Other'); the sample without age;
\* the sample without gender and location and with engagement_score 1.01; the
\* sample with age 121; the sample with a string for session_count.
RequestRecords ==
    {SampleInput,
     JsonUser(RequestPool[3]),
     JsonWithout(SampleInput, {"age"}),
     JsonWith(JsonWithout(SampleInput, {"gender", "location"}), "engagement_score", JNum(101)),
     JsonWith(SampleInput, "age", JNum(121)),
     JsonWith(SampleInput, "session_count", JStr("abc"))}

RECURSIVE SeqsUpTo(_, _)
SeqsUpTo(S, n) ==
    IF n = 0 THEN {<<>>}
    ELSE LET shorter == SeqsUpTo(S, n - 1)
         IN shorter \cup {Append(q, x) : q \in {t \in shorter : Len(t) = n - 1}, x \in S}

\* Request bodies: text that is no JSON, one JSON object, or a list of objects.
RequestBodies ==
    {[shape |-> "malformed", records |-> <<>>]}
    \cup {[shape |-> "dict", records |-> <<r>>] : r \in RequestRecords}
    \cup {[shape |-> "list", records |-> q] : q \in SeqsUpTo(RequestRecords, MaxRows)}

ContentTypes == {"application/json", "text/csv"}

\* inference.py:39-43
required_raw_features == BaseFeatures

\* inference.py:62-73  validations, in the dict's order; ranges in the model's
\* units (engagement_score and historical_conversion_rate in percent)
ValidationOrder ==
    <<"age", "session_count", "avg_session_duration", "page_views",
      "purchase_history", "total_spent", "engagement_score",
      "historical_conversion_rate", "gender", "location">>

Validations ==
    [age |-> [type |-> "number", ranged |-> TRUE, min |-> 0, capped |-> TRUE, max |-> 120],
     session_count |->
        [type |-> "number", ranged |-> TRUE, min |-> 0, capped |-> FALSE, max |-> 0],
     avg_session_duration |->
        [type |-> "number", ranged |-> TRUE, min |-> 0, capped |-> FALSE, max |-> 0],
     page_views |->
        [type |-> "number", ranged |-> TRUE, min |-> 0, capped |-> FALSE, max |-> 0],
     purchase_history |->
        [type |-> "number", ranged |-> TRUE, min |-> 0, capped |-> FALSE, max |-> 0],
     total_spent |->
        [type |-> "number", ranged |-> TRUE, min |-> 0, capped |-> FALSE, max |-> 0],
     engagement_score |->
        [type |-> "number", ranged |-> TRUE, min |-> 0, capped |-> TRUE, max |-> 100],
     historical_conversion_rate |->
        [type |-> "number", ranged |-> TRUE, min |-> 0, capped |-> TRUE, max |-> 100],
     gender |-> [type |-> "str", ranged |-> FALSE, min |-> 0, capped |-> FALSE, max |-> 0],
     location |-> [type |-> "str", ranged |-> FALSE, min |-> 0, capped |-> FALSE, max |-> 0]]

NoError == [type |-> "none"]

ValueError(message, features) ==
    [type |-> "ValueError", message |-> message, features |-> features]

\* inference.py:37  pd.DataFrame(input_data): the columns are the keys of all
\* records; a record without a key has nan there.
JsonColumns(records) == UNION {DOMAIN records[i] : i \in DOMAIN records}

JsonFrame(records) ==
    [i \in DOMAIN records |->
        [c \in JsonColumns(records) |->
            IF c \in DOMAIN records[i] THEN records[i][c] ELSE JNaN]]

\* inference.py:77  isinstance(x, rules['type']); nan is a float, a bool is an
\* int, None is neither a number nor a str
IsInstance(v, type) ==
    IF type = "number" THEN "num" \in DOMAIN v \/ "nan" \in DOMAIN v \/ "bool" \in DOMAIN v
    ELSE "str" \in DOMAIN v

\* The number 1 in the units of a column (1.0 is 100 percent).
UnitOne(col) == IF col \in {"engagement_score", "historical_conversion_rate"} THEN 100 ELSE 1

\* The numbers a comparison sees in the cells: True is 1, False is 0, and a
\* comparison with nan is False.
NumbersOf(cells, col) ==
    {v.num : v \in {w \in cells : "num" \in DOMAIN w}}
       \cup {IF v.bool THEN UnitOne(col) ELSE 0 : v \in {w \in cells : "bool" \in DOMAIN w}}

\* _validate_input_data with the ends of every range rejected.
ColumnError_OpenRange(df, col) ==
    LET rules == Validations[col]
        cells == {df[i][col] : i \in DOMAIN df}
        numbers == NumbersOf(cells, col)
    IN IF col \notin Columns(df) THEN NoError
       ELSE IF \E v \in cells : ~IsInstance(v, rules.type)
            THEN ValueError("Invalid data type", <<col>>)
       ELSE IF rules.ranged /\ \E x \in numbers : x <= rules.min
            THEN ValueError("Values below minimum", <<col>>)
       ELSE IF rules.ranged /\ rules.capped /\ \E x \in numbers : x >= rules.max
            THEN ValueError("Values above maximum", <<col>>)
       ELSE NoError

\* inference.py:75-90  what the loop raises at one column (a comparison with nan
\* is False; unknown gender values are only logged)
ColumnError(df, col) ==
    LET rules == Validations[col]
        cells == {df[i][col] : i \in DOMAIN df}
        numbers == NumbersOf(cells, col)
    IN IF col \notin Columns(df) THEN NoError
       ELSE IF \E v \in cells : ~IsInstance(v, rules.type)
            THEN ValueError("Invalid data type", <<col>>)
       ELSE IF rules.ranged /\ \E x \in numbers : x < rules.min
            THEN ValueError("Values below minimum", <<col>>)
       ELSE IF rules.ranged /\ rules.capped /\ \E x \in numbers : x > rules.max
            THEN ValueError("Values above maximum", <<col>>)
       ELSE NoError

\* inference.py:58-90  _validate_input_data: the first exception raised, if any
_validate_input_data(df) ==
    LET failing == {k \in DOMAIN ValidationOrder :
                        ColumnError(df, ValidationOrder[k]) # NoError}
    IN IF failing = {} THEN NoError
       ELSE ColumnError(df, ValidationOrder[CHOOSE k \in failing :
                                               \A j \in failing : k <= j])

\* The values _validate_input_data is tried on, per feature: below, at and above
\* the ends of its range, a number far above 0, and a string, None and True for
\* a numeric feature; known and unknown gender strings, a number and None for
\* gender; a number for location.
TrialValues(feature) ==
    LET rules == Validations[feature]
    IN IF rules.type = "number"
       THEN {JNum(rules.min - 1), JNum(rules.min), JNum(1000000), JStr("abc"), JNull,
             JBool(TRUE)}
            \cup (IF rules.capped THEN {JNum(rules.max), JNum(rules.max + 1)} ELSE {})
       ELSE IF feature = "gender"
            THEN {JStr("Other"), JStr("M"), JStr("robot"), JNum(1), JNull}
       ELSE {JStr("FR"), JNum(1)}

\* The valid row the trial values are put into: sample_input.
TrialBase == JsonUser(RequestPool[1])

\* The base row with one feature at one of its trial values.
TrialRecords ==
    UNION {{JsonWith(TrialBase, f, v) : v \in TrialValues(f)} : f \in Range(ValidationOrder)}

\* DataFrames of one trial row, alone or before or after the base row.
TrialFrames == UNION {{<<r>>, <<TrialBase, r>>, <<r, TrialBase>>} : r \in TrialRecords}

\* inference.py:45  the required features that are no column of df, in the
\* order of required_raw_features
MissingFeatures(df) ==
    SelectSeq(required_raw_features, LAMBDA f : f \notin Columns(df))

\* inference.py:51  df[required_raw_features]
SelectRequired(df) ==
    [i \in DOMAIN df |-> [c \in Range(required_raw_features) |-> df[i][c]]]

Raised(error) == [ok |-> FALSE, error |-> error, df |-> <<>>]
Returned(df) == [ok |-> TRUE, error |-> NoError, df |-> df]

\* input_fn with the values validated before the missing-feature check.
input_fn_ValidateFirst(request_body, request_content_type) ==
    IF request_content_type = "application/json"
    THEN IF request_body.shape = "malformed"
         THEN Raised([type |-> "JSONDecodeError", message |-> "invalid JSON",
                      features |-> <<>>])
         ELSE LET df == JsonFrame(request_body.records)
              IN IF _validate_input_data(df) # NoError
                 THEN Raised(_validate_input_data(df))
                 ELSE IF MissingFeatures(df) # <<>>
                      THEN Raised(ValueError("Missing required features",
                                             MissingFeatures(df)))
                      ELSE Returned(SelectRequired(df))
    ELSE Raised(ValueError("Unsupported content type", <<>>))

\* inference.py:26-56  input_fn: the DataFrame returned or the exception raised
\* (json.loads raises JSONDecodeError, a ValueError, on text that is no JSON; a
\* dict body is wrapped in a list, which the body's records already are)
input_fn(request_body, request_content_type) ==
    IF request_content_type = "application/json"
    THEN IF request_body.shape = "malformed"
         THEN Raised([type |-> "JSONDecodeError", message |-> "invalid JSON",
                      features |-> <<>>])
         ELSE LET df == JsonFrame(request_body.records)
              IN IF MissingFeatures(df) # <<>>
                 THEN Raised(ValueError("Missing required features",
                                        MissingFeatures(df)))
                 ELSE IF _validate_input_data(df) # NoError
                      THEN Raised(_validate_input_data(df))
                      ELSE Returned(SelectRequired(df))
    ELSE Raised(ValueError("Unsupported content type", <<>>))

\* What model.predict and model.predict_proba may return for n rows: a class per
\* row, and per row the probabilities of class 0 and class 1, in percent.
RowProbabilities == {<<100 - p, p>> : p \in {30, 80, 90}}

ModelOutputs(n) ==
    [predictions : [1..n -> Predictions], probabilities : [1..n -> RowProbabilities]]

\* One result with the confidence always the high-value probability.
PredictionResult_HighValueConfidence(i, pred, prob, draw) ==
    [user_index |-> i,
     predicted_bucket |-> IF pred = 1 THEN "high_value" ELSE "standard",
     confidence |-> prob[2],
     high_value_probability |-> prob[2],
     standard_probability |-> prob[1],
     experiment_assignment |-> assign_experiment(pred, prob[2], draw),
     model_version |-> "unified_pipeline"]

\* inference.py:106-114  one result; i counts from 0, prob is the row
\* (P(class 0), P(class 1)), so prob[pred] of the code is prob[pred + 1] here
PredictionResult(i, pred, prob, draw) ==
    [user_index |-> i,
     predicted_bucket |-> IF pred = 1 THEN "high_value" ELSE "standard",
     confidence |-> prob[pred + 1],
     high_value_probability |-> prob[2],
     standard_probability |-> prob[1],
     experiment_assignment |-> assign_experiment(pred, prob[2], draw),
     model_version |-> "unified_pipeline"]

\* inference.py:104-117  the results list
PredictionResults(out, draws) ==
    [k \in DOMAIN out.predictions |->
        PredictionResult(k - 1, out.predictions[k], out.probabilities[k], draws[k])]

\* The models train_model can save (train.py:141-146), for one run of
\* preprocess_data and every staging of its optional files and model type.
SavableModels ==
    LET input == SubFrame(UserPool, 1..NumUsers)
        sp == CHOOSE x \in TrainingSplits(HighValueLabels(input)) :
                 BothClasses(TakeRows(HighValueLabels(input), x.validation))
        out == PreprocessOutput(input, sp)
    IN {FittedModel(Restrict(out, (DOMAIN out) \ missing), t) :
           missing \in SUBSET OptionalFiles, t \in ModelTypes}

(***************************************************************************)
(* lambdas/data-ingestion/index.py: handler and the dataset builders        *)
(*                                                                         *)
(* What the handler cannot control is its world: whether the reviews are   *)
(* fetched and parsed (network; index.py:182-193), how many user profiles  *)
(* they give, whether each call of generate_user_bucketing_data, to_csv    *)
(* and put_object succeeds, and the time.  A step's outcome is [ok, rows,  *)
(* used, source]: whether it returned, the rows of its DataFrame, the      *)
(* calls of generate_user_bucketing_data made so far, and whether the rows *)
(* come from the reviews or are all synthetic.                             *)
(***************************************************************************)

\* The invocations of the handler, at most.
MaxInvocations == 2

\* index.py:68  num_users=10000
DefaultNumUsers == 10000
\* index.py:290  len(df_users) < 1000
MinAmazonUsers == 1000
\* index.py:292  generate_user_bucketing_data(5000 - len(df_users))
SupplementedUsers == 5000

BucketName == "raw-data-bucket"
KmsKey == "kms-key"
KeyPrefix == "experiment-data/user-bucketing-data-"

DatasetTypes == {"synthetic", "amazon-reviews", "nyc-taxi"}

\* The events: with or without dataset_type.
Events == {<<>>} \cup {[dataset_type |-> t] : t \in DatasetTypes}

\* The environments: each of the three variables set or not.
Environments ==
    LET full == [RAW_DATA_BUCKET |-> BucketName, KMS_KEY_ID |-> KmsKey,
                 DEFAULT_DATASET_TYPE |-> "synthetic"]
    IN {Restrict(full, S) : S \in SUBSET DOMAIN full}
       \cup {Restrict([full EXCEPT !.DEFAULT_DATASET_TYPE = "amazon-reviews"], S) :
                S \in {T \in SUBSET DOMAIN full : "DEFAULT_DATASET_TYPE" \in T}}

Worlds ==
    [network : BOOLEAN, profiles : {999, 1000}, generate : [1..3 -> BOOLEAN],
     to_csv : BOOLEAN, put_object : BOOLEAN]

\* index.py:68-145  generate_user_bucketing_data(num_users): the next call
generate_user_bucketing_data(world, used, num_users) ==
    [ok |-> world.generate[used + 1],
     rows |-> IF world.generate[used + 1] THEN num_users ELSE 0,
     used |-> used + 1,
     source |-> "synthetic"]

\* index.py:201-297  transform_amazon_reviews_to_user_data: fewer than 1000
\* profiles are topped up to 5000 with synthetic users
transform_amazon_reviews_to_user_data(world) ==
    IF world.profiles < MinAmazonUsers
    THEN LET synthetic ==
                 generate_user_bucketing_data(world, 0, SupplementedUsers - world.profiles)
         IN [synthetic EXCEPT !.rows = IF synthetic.ok THEN world.profiles + @ ELSE 0,
                              !.source = "amazon-reviews"]
    ELSE [ok |-> TRUE, rows |-> world.profiles, used |-> 0, source |-> "amazon-reviews"]

\* index.py:168-199  download_amazon_reviews_sample
download_amazon_reviews_sample(world) ==
    LET attempt == IF world.network THEN transform_amazon_reviews_to_user_data(world)
                   ELSE [ok |-> FALSE, rows |-> 0, used |-> 0, source |-> "amazon-reviews"]
    IN IF attempt.ok THEN attempt
       ELSE generate_user_bucketing_data(world, attempt.used, DefaultNumUsers)

\* index.py:147-166  download_public_dataset
download_public_dataset(dataset_name, world) ==
    LET attempt == IF dataset_name = "amazon-reviews"
                   THEN download_amazon_reviews_sample(world)
                   ELSE generate_user_bucketing_data(world, 0, DefaultNumUsers)
    IN IF attempt.ok THEN attempt
       ELSE generate_user_bucketing_data(world, attempt.used, DefaultNumUsers)

\* The dataset type with the environment's default before the event's.
DatasetType_DefaultFirst(event, env) ==
    IF "DEFAULT_DATASET_TYPE" \in DOMAIN env THEN env.DEFAULT_DATASET_TYPE
    ELSE IF "dataset_type" \in DOMAIN event THEN event.dataset_type
    ELSE "amazon-reviews"

\* index.py:27  the dataset type: the event's, else the environment's, else
\* 'amazon-reviews'
DatasetType(event, env) ==
    IF "dataset_type" \in DOMAIN event THEN event.dataset_type
    ELSE IF "DEFAULT_DATASET_TYPE" \in DOMAIN env THEN env.DEFAULT_DATASET_TYPE
    ELSE "amazon-reviews"

\* index.py:30-33
Dataset(event, env, world) ==
    IF DatasetType(event, env) = "synthetic"
    THEN generate_user_bucketing_data(world, 0, DefaultNumUsers)
    ELSE download_public_dataset(DatasetType(event, env), world)

\* index.py:61-66
ErrorResponse(text) ==
    [raised |-> FALSE, exception |-> text, statusCode |-> 500, body |-> [error |-> text],
     put_calls |-> IF text = "put_object failed" THEN 1 ELSE 0, written |-> <<>>]

\* index.py:41-59  the upload and the response after it
Uploaded(env, data, now) ==
    LET key == [prefix |-> KeyPrefix, timestamp |-> now]
    IN [raised |-> FALSE, exception |-> "", statusCode |-> 200,
        body |-> [message |-> "Data ingestion completed successfully",
                  data_location |-> [bucket |-> env.RAW_DATA_BUCKET, key |-> key],
                  records_generated |-> data.rows,
                  timestamp |-> now],
        put_calls |-> 1,
        written |-> <<[Bucket |-> env.RAW_DATA_BUCKET, Key |-> key,
                       Body |-> data.rows, ServerSideEncryption |-> "aws:kms",
                       SSEKMSKeyId |-> env.KMS_KEY_ID]>>]

\* handler with a failed upload not noticed.
handler_UploadUnchecked(event, env, world, now) ==
    IF "RAW_DATA_BUCKET" \notin DOMAIN env
    THEN [raised |-> TRUE, exception |-> "'RAW_DATA_BUCKET'", statusCode |-> 0,
          body |-> <<>>, put_calls |-> 0, written |-> <<>>]
    ELSE LET data == Dataset(event, env, world)
         IN IF ~data.ok THEN ErrorResponse("dataset creation failed")
            ELSE IF ~world.to_csv THEN ErrorResponse("to_csv failed")
            ELSE IF "KMS_KEY_ID" \notin DOMAIN env THEN ErrorResponse("'KMS_KEY_ID'")
            ELSE IF ~world.put_object
                 THEN [Uploaded(env, data, now) EXCEPT !.written = <<>>,
                                                        !.exception = "put_object failed"]
            ELSE Uploaded(env, data, now)

\* index.py:18-66  handler: the response, the calls of put_object made and the
\* objects written (the KeyError of a missing RAW_DATA_BUCKET is raised outside
\* the try; that of a missing KMS_KEY_ID while the arguments of put_object are
\* evaluated, so before the call)
handler(event, env, world, now) ==
    IF "RAW_DATA_BUCKET" \notin DOMAIN env
    THEN [raised |-> TRUE, exception |-> "'RAW_DATA_BUCKET'", statusCode |-> 0,
          body |-> <<>>, put_calls |-> 0, written |-> <<>>]
    ELSE LET data == Dataset(event, env, world)
         IN IF ~data.ok THEN ErrorResponse("dataset creation failed")
            ELSE IF ~world.to_csv THEN ErrorResponse("to_csv failed")
            ELSE IF "KMS_KEY_ID" \notin DOMAIN env THEN ErrorResponse("'KMS_KEY_ID'")
            ELSE IF ~world.put_object THEN ErrorResponse("put_object failed")
            ELSE Uploaded(env, data, now)

\* S3 after put_object of each object of written: a key holds its latest body.
PutObjects(objects, written) ==
    IF written = <<>> THEN objects
    ELSE WithFile(objects, [bucket |-> written[1].Bucket, key |-> written[1].Key],
                  written[1])

(***************************************************************************)
(* scripts/glue-etl/sample-etl.py: the Glue ETL job                        *)
(*                                                                         *)
(* A Spark DataFrame is a sequence of rows (Spark does not promise their   *)
(* order; no step depends on it).  Amounts and prices are whole currency   *)
(* units, a date is the number yyyymmdd, profit_margin and the averages    *)
(* are in hundredths, discount_percentage in hundredths of a percent.  A   *)
(* null number or date is SqlNull, a null string is None.                  *)
(***************************************************************************)

\* The rows of the sales table, at most.
MaxSales == 2

SqlNull == 0 - 999999999

IsNull(x) == x = SqlNull

\* sample-etl.py:149  total_lifetime_value > 2000
HighValueLifetime == 2000
\* sample-etl.py:152-153  total_amount < 50, total_amount < 150
SmallOrder == 50
MediumOrder == 150

Sale(tid, cid, pid, amount, qty, date, price) ==
    [transaction_id |-> tid, customer_id |-> cid, product_id |-> pid,
     total_amount |-> amount, quantity |-> qty, transaction_date |-> date,
     unit_price |-> price, store_location |-> "NYC", category |-> "toys"]

Customer(cid, segment, value) ==
    [customer_id |-> cid, customer_segment |-> segment, total_lifetime_value |-> value,
     email |-> "x@example.com"]

Product(pid, brand, stock) ==
    [product_id |-> pid, brand |-> brand, stock_quantity |-> stock, supplier |-> "S1",
     category |-> "toys"]

\* Sales rows: a valid sale; a second row of the same transaction with amount 0;
\* a valid sale of a customer and a product that are in no table; a sale of
\* quantity 0; a sale without a date; a valid sale without a customer.
SalePool ==
    <<Sale(1, 10, 100, 120, 2, 20240115, 80),
      Sale(1, 10, 100, 0, 2, 20240115, 80),
      Sale(2, 11, 101, 40, 1, 20240116, 40),
      Sale(3, 10, 100, 200, 0, 20240116, 25),
      Sale(4, 12, 100, 60, 3, SqlNull, 20),
      Sale(5, SqlNull, 100, 150, 1, 20240117, 0)>>

SalesTables == SeqsUpTo(Range(SalePool), MaxSales)

\* Customer tables: two customers; customer 10 twice; none.
CustomerTables ==
    {<<Customer(10, "premium", 2500), Customer(12, "basic", 2000)>>,
     <<Customer(10, "premium", 2500), Customer(10, "basic", SqlNull)>>,
     <<>>}

ProductTables == {<<Product(100, "Acme", 5)>>, <<>>}

\* round(n / d, 0) of Spark (HALF_UP), d > 0
RoundDiv(n, d) ==
    IF n >= 0 THEN (2 * n + d) \div (2 * d) ELSE 0 - ((2 * (0 - n) + d) \div (2 * d))

RECURSIVE Flatten(_)
Flatten(ss) == IF ss = <<>> THEN <<>> ELSE Head(ss) \o Flatten(Tail(ss))

\* The rows of df at the positions in keep, in order.
KeepRows(df, keep) == SelectSeq([i \in DOMAIN df |-> IF i \in keep THEN <<df[i]>> ELSE <<>>],
                                LAMBDA r : r # <<>>)

\* sample-etl.py:94  dropDuplicates(['transaction_id']): the sets of positions it
\* may keep, one row of each transaction_id, whichever Spark finds first.
DropDuplicatesChoices(df) ==
    {keep \in SUBSET DOMAIN df :
        \A i \in DOMAIN df :
            Cardinality({j \in keep : df[j].transaction_id = df[i].transaction_id}) = 1}

\* sample-etl.py:97-101  the filter: a comparison with null is not true
ValidSale(row) ==
    /\ ~IsNull(row.total_amount) /\ row.total_amount > 0
    /\ ~IsNull(row.quantity) /\ row.quantity > 0
    /\ ~IsNull(row.transaction_date)

\* sample-etl.py:116-120  discount_percentage (null when a factor is null or the
\* list price is 0: Spark's division by zero gives null)
DiscountPercentage(row) ==
    IF IsNull(row.unit_price) \/ IsNull(row.quantity) \/ IsNull(row.total_amount)
       \/ row.unit_price * row.quantity = 0
    THEN SqlNull
    ELSE LET list == row.unit_price * row.quantity
         IN IF list > 0 THEN RoundDiv((list - row.total_amount) * 10000, list)
            ELSE RoundDiv((row.total_amount - list) * 10000, 0 - list)

\* sample-etl.py:104-120  the derived columns of one row
WithDerived(row) ==
    LET d == row.transaction_date
        derived == [transaction_year |-> IF IsNull(d) THEN SqlNull ELSE d \div 10000,
                    transaction_month |-> IF IsNull(d) THEN SqlNull ELSE (d \div 100) % 100,
                    transaction_day |-> IF IsNull(d) THEN SqlNull ELSE d % 100,
                    discount_percentage |-> DiscountPercentage(row)]
    IN [c \in (DOMAIN row) \cup (DOMAIN derived) |->
           IF c \in DOMAIN derived THEN derived[c] ELSE row[c]]

\* sample-etl.py:89-123  clean_sales_data, with the rows dropDuplicates keeps
clean_sales_data(sales_df, keep) ==
    LET deduplicated == Flatten(KeepRows(sales_df, keep))
        filtered == SelectSeq(deduplicated, ValidSale)
    IN [i \in DOMAIN filtered |-> WithDerived(filtered[i])]

\* row with the columns of other added
Joined(row, other) ==
    [c \in (DOMAIN row) \cup (DOMAIN other) |-> IF c \in DOMAIN other THEN other[c] ELSE row[c]]

\* An inner join in place of the left join.
LeftJoin_Inner(left, right, key, nulls) ==
    Flatten([i \in DOMAIN left |->
        LET matches == SelectSeq(right, LAMBDA r : ~IsNull(left[i][key]) /\ r[key] = left[i][key])
        IN [k \in DOMAIN matches |-> Joined(left[i], matches[k])]])

\* sample-etl.py:130-141  left.join(right, on=key, how='left'): a left row once per
\* matching right row, and once with nulls when none matches (null matches
\* nothing)
LeftJoin(left, right, key, nulls) ==
    Flatten([i \in DOMAIN left |->
        LET matches == SelectSeq(right, LAMBDA r : ~IsNull(left[i][key]) /\ r[key] = left[i][key])
        IN IF matches = <<>> THEN <<Joined(left[i], nulls)>>
           ELSE [k \in DOMAIN matches |-> Joined(left[i], matches[k])]])

\* sample-etl.py:131 and :138  the columns selected from the right tables
CustomerColumns(customer_df) ==
    [i \in DOMAIN customer_df |->
        [customer_id |-> customer_df[i].customer_id,
         customer_segment |-> customer_df[i].customer_segment,
         total_lifetime_value |-> customer_df[i].total_lifetime_value]]

ProductColumns(product_df) ==
    [i \in DOMAIN product_df |->
        [product_id |-> product_df[i].product_id, brand |-> product_df[i].brand,
         stock_quantity |-> product_df[i].stock_quantity,
         supplier |-> product_df[i].supplier]]

\* sample-etl.py:144-155  the business metrics of one row
WithMetrics(row) ==
    LET metrics ==
          [profit_margin |-> 40 * row.total_amount,
           is_high_value_customer |-> /\ ~IsNull(row.total_lifetime_value)
                                      /\ row.total_lifetime_value > HighValueLifetime,
           order_size_category |-> IF row.total_amount < SmallOrder THEN "Small"
                                   ELSE IF row.total_amount < MediumOrder THEN "Medium"
                                   ELSE "Large"]
    IN [c \in (DOMAIN row) \cup (DOMAIN metrics) |->
           IF c \in DOMAIN metrics THEN metrics[c] ELSE row[c]]

\* sample-etl.py:125-158  create_enriched_sales
create_enriched_sales(sales_df, customer_df, product_df) ==
    LET with_customer == LeftJoin(sales_df, CustomerColumns(customer_df), "customer_id",
                                  [customer_segment |-> None,
                                   total_lifetime_value |-> SqlNull])
        with_product == LeftJoin(with_customer, ProductColumns(product_df), "product_id",
                                 [brand |-> None, stock_quantity |-> SqlNull,
                                  supplier |-> None])
    IN [i \in DOMAIN with_product |-> WithMetrics(with_product[i])]

\* The distinct values of column c in df that are not null
DistinctOf(df, c) == {df[i][c] : i \in DOMAIN df} \ {SqlNull}

\* sample-etl.py:160-176  create_sales_summary: a row per date and store
create_sales_summary(enriched_df) ==
    {LET rows == SelectSeq(enriched_df, LAMBDA r : r.transaction_date = k[1]
                                                  /\ r.store_location = k[2])
         revenue == SumSeq([i \in DOMAIN rows |-> rows[i].total_amount])
     IN [transaction_date |-> k[1], store_location |-> k[2],
         daily_revenue |-> revenue,
         transaction_count |-> Len(SelectSeq(rows, LAMBDA r : ~IsNull(r.transaction_id))),
         avg_order_value |-> RoundDiv(100 * revenue, Len(rows)),
         daily_profit |-> SumSeq([i \in DOMAIN rows |-> rows[i].profit_margin]),
         unique_customers |-> Cardinality(DistinctOf(rows, "customer_id"))] :
       k \in {<<enriched_df[i].transaction_date, enriched_df[i].store_location>> :
                 i \in DOMAIN enriched_df}}

\* sample-etl.py:178-193  create_customer_insights: a row per customer and segment
create_customer_insights(enriched_df) ==
    {LET rows == SelectSeq(enriched_df, LAMBDA r : r.customer_id = k[1]
                                                  /\ r.customer_segment = k[2])
         spent == SumSeq([i \in DOMAIN rows |-> rows[i].total_amount])
         dates == {rows[i].transaction_date : i \in DOMAIN rows}
     IN [customer_id |-> k[1], customer_segment |-> k[2],
         total_spent |-> spent,
         order_count |-> Len(SelectSeq(rows, LAMBDA r : ~IsNull(r.transaction_id))),
         avg_order_size |-> RoundDiv(100 * spent, Len(rows)),
         last_order_date |-> CHOOSE d \in dates : \A e \in dates : e <= d,
         categories_purchased |-> Cardinality({rows[i].category : i \in DOMAIN rows})] :
       k \in {<<enriched_df[i].customer_id, enriched_df[i].customer_segment>> :
                 i \in DOMAIN enriched_df}}

\* sample-etl.py:231-253 and :263  the steps of main in the order of the code,
\* then job.commit()
MainSteps ==
    <<"read_sales_data", "read_customer_data", "read_product_data",
      "clean_sales_data", "create_enriched_sales", "create_sales_summary",
      "create_customer_insights", "write enriched_sales", "write sales_summary",
      "write customer_insights", "print summary", "job.commit">>

\* sample-etl.py:242-244  the tables written, with their partition columns
CuratedTables ==
    <<[step |-> "write enriched_sales", table |-> "enriched_sales",
       partitionKeys |-> <<"transaction_year", "transaction_month">>],
      [step |-> "write sales_summary", table |-> "sales_summary",
       partitionKeys |-> <<"transaction_date">>],
      [step |-> "write customer_insights", table |-> "customer_insights",
       partitionKeys |-> <<>>]>>

\* The script about to run step, and the script after the last statement.
Ready(step) == [step |-> step, raised |-> FALSE]
Finished == [step |-> "end", raised |-> FALSE]

\* The step after step in main.
StepAfter(step) ==
    LET k == IndexOf(MainSteps, step)
    IN IF k = Len(MainSteps) THEN Finished ELSE Ready(MainSteps[k + 1])

\* An exception caught, printed and forgotten.
AfterException_Swallowed(step) == Ready("job.commit")

\* sample-etl.py:255-257  an exception in a step of main is printed and raised
\* again: the script ends there.
AfterException(step) == [step |-> step, raised |-> TRUE]

(***************************************************************************)
(* Specifications.  Every component starts from its own initial condition; *)
(* a specification runs one component and leaves the others alone.        *)
(***************************************************************************)

AssignInit ==
    /\ asgIn \in [prediction : Predictions, high_value_prob : ProbGrid]
    /\ asgOut = <<>>

\* A component that does not run: one fixed initial state.
AssignIdle ==
    /\ asgIn = [prediction |-> 0, high_value_prob |-> 0]
    /\ asgOut = <<>>

\* One call of assign_experiment on the arguments, with a fresh random draw.
AssignExperiment ==
    /\ Len(asgOut) < MaxAssignCalls
    /\ \E draw \in Draws :
          asgOut' = Append(asgOut,
                           assign_experiment(asgIn.prediction, asgIn.high_value_prob, draw))
    /\ UNCHANGED <<asgIn, tfVars, ppVars, trVars, infVars, ingVars, selVars, valVars, glVars>>

TransformerInit ==
    /\ trainX \in TrainFrames
    /\ transformer = NewTransformer
    /\ fits = 0
    /\ tfLog = {}

TransformerIdle ==
    /\ trainX = <<>>
    /\ transformer = NewTransformer
    /\ fits = 0
    /\ tfLog = {}

\* feature_transformer.fit(X)  (a second call refits the same object, as
\* Pipeline.fit does with the transformer train.py:87 loads)
Fit ==
    /\ fits < MaxFits
    /\ transformer' = fit(transformer, trainX)
    /\ fits' = fits + 1
    /\ UNCHANGED <<trainX, tfLog, asgVars, ppVars, trVars, infVars, ingVars, selVars, valVars, glVars>>

\* feature_transformer.transform(X) on a fitted transformer
Transform ==
    /\ IsFitted(transformer)
    /\ Cardinality(tfLog) < MaxTransforms
    /\ \E S \in BatchPositions :
          LET call == TransformCall(transformer, SubFrame(RequestPool, S),
                                    Ascending(S, Len(RequestPool)))
          IN /\ tfLog' = tfLog \cup {call}
             /\ transformer' = call.self_after
    /\ UNCHANGED <<trainX, fits, asgVars, ppVars, trVars, infVars, ingVars, selVars, valVars, glVars>>

\* Ages and amounts around the edges of the bins and of the validated range.
TrialAges == {0, 1, 18, 25, 26, 35, 36, 50, 51, 100, 101, 120}
TrialSpends == {0, 1, 50, 51, 200, 201, 100000}

\* feature_transformer.transform(X) on a fitted transformer, X being one row:
\* sample_input with an age and a total_spent of the trial values
TransformRow ==
    /\ IsFitted(transformer)
    /\ tfLog = {}
    /\ \E age \in TrialAges, spent \in TrialSpends :
          LET row == [RequestPool[1] EXCEPT !.age = age, !.total_spent = spent]
              call == TransformCall(transformer, <<row>>, <<1>>)
          IN /\ tfLog' = {call}
             /\ transformer' = call.self_after
    /\ UNCHANGED <<trainX, fits, asgVars, ppVars, trVars, infVars, ingVars, selVars, valVars, glVars>>

PreprocessInit ==
    /\ ppPc = "start"
    /\ inputCsv \in InputFrames \cup {<<>>}
    /\ ppData = <<>>
    /\ ppSplit = <<>>
    /\ feature_transformer = NewTransformer
    /\ ppScaled = <<>>
    /\ ppCalls = <<>>
    /\ ppFiles = <<>>

PreprocessIdle ==
    /\ ppPc = "idle"
    /\ inputCsv = <<>>
    /\ ppData = <<>>
    /\ ppSplit = <<>>
    /\ feature_transformer = NewTransformer
    /\ ppScaled = <<>>
    /\ ppCalls = <<>>
    /\ ppFiles = <<>>

\* preprocessing.py:132-155  load the newest CSV, label it, take X_raw and y;
\* without a CSV file the job ends with ValueError.
PreprocessLoad ==
    /\ ppPc = "start"
    /\ IF inputCsv = <<>>
       THEN /\ ppPc' = "error"
            /\ UNCHANGED ppData
       ELSE /\ ppPc' = "loaded"
            /\ ppData' = [X |-> SelectBase(inputCsv), y |-> HighValueLabels(inputCsv)]
    /\ UNCHANGED <<inputCsv, ppSplit, feature_transformer, ppScaled, ppCalls, ppFiles,
                   asgVars, tfVars, trVars, infVars, ingVars, selVars, valVars, glVars>>

\* preprocessing.py:160-166  the two train_test_split calls
PreprocessSplit ==
    /\ ppPc = "loaded"
    /\ \E sp \in Splits(Len(ppData.X)) :
          /\ Disjoint(sp)
          /\ ppSplit' = sp
    /\ ppPc' = "split"
    /\ UNCHANGED <<inputCsv, ppData, feature_transformer, ppScaled, ppCalls, ppFiles,
                   asgVars, tfVars, trVars, infVars, ingVars, selVars, valVars, glVars>>

\* preprocessing.py:173  feature_transformer.fit(X_raw_train)
PreprocessFit ==
    /\ ppPc = "split"
    /\ feature_transformer' = fit(feature_transformer, FitInput(ppData, ppSplit))
    /\ ppCalls' = Append(ppCalls, [op |-> "fit", X |-> FitInput(ppData, ppSplit)])
    /\ ppPc' = "fitted"
    /\ UNCHANGED <<inputCsv, ppData, ppSplit, ppScaled, ppFiles, asgVars, tfVars, trVars, infVars, ingVars, selVars, valVars, glVars>>

\* preprocessing.py:175-177  the next of the three transform calls: train, then
\* validation, then test
PreprocessTransform ==
    /\ ppPc = "fitted"
    /\ LET name == SplitNames[Len(ppCalls)]
           X == TakeRows(ppData.X, ppSplit[name])
       IN /\ ppScaled' = [c \in (DOMAIN ppScaled) \cup {name} |->
                             IF c = name THEN transform(feature_transformer, X)
                             ELSE ppScaled[c]]
          /\ ppCalls' = Append(ppCalls, [op |-> "transform", X |-> X])
          /\ ppPc' = IF name = "test" THEN "transformed" ELSE "fitted"
    /\ UNCHANGED <<inputCsv, ppData, ppSplit, feature_transformer, ppFiles,
                   asgVars, tfVars, trVars, infVars, ingVars, selVars, valVars, glVars>>

\* preprocessing.py:182-211  write the six files
PreprocessSave ==
    /\ ppPc = "transformed"
    /\ ppFiles' = PreprocessFiles(ppData, ppSplit, feature_transformer, ppScaled)
    /\ ppPc' = "done"
    /\ UNCHANGED <<inputCsv, ppData, ppSplit, feature_transformer, ppScaled, ppCalls,
                   asgVars, tfVars, trVars, infVars, ingVars, selVars, valVars, glVars>>

TrainingInit ==
    /\ \E input \in InputFrames, missing \in SUBSET OptionalFiles :
          \E sp \in TrainingSplits(HighValueLabels(input)) :
             LET out == PreprocessOutput(input, sp)
             IN files = Restrict(out, (DOMAIN out) \ missing)
    /\ model_type \in ModelTypes
    /\ trainPc = "start"
    /\ evalPc = "start"
    /\ scored = {}

TrainingIdle ==
    /\ files = <<>>
    /\ model_type = "random_forest"
    /\ trainPc = "idle"
    /\ evalPc = "idle"
    /\ scored = {}

\* train.py:18-171  train_model.  It fits the model, scores the validation set,
\* computes the metrics (predict_proba(...)[:, 1] raises IndexError for a
\* classifier fitted on one class, roc_auc_score raises ValueError for validation
\* targets of one class) and only then writes model.pkl, metrics.json and
\* metadata.json.
TrainModel ==
    /\ trainPc = "start"
    /\ LET m == FittedModel(files, model_type)
           name == TrainScoredFile(files)
       IN /\ scored' = scored \cup {ScoringCall("train_model", m, name, files[name])}
          /\ IF Cardinality(m.classes) < 2
             THEN trainPc' = "IndexError" /\ UNCHANGED files
             ELSE IF ~BothClasses(files["validation.csv"].y)
                  THEN trainPc' = "ValueError" /\ UNCHANGED files
                  ELSE /\ trainPc' = "done"
                       /\ files' =
                            WithFile(WithFile(WithFile(files, "model.pkl", m),
                               "metrics.json", [computed_on |-> "validation.csv"]),
                               "metadata.json",
                               [model_type |-> model_type,
                                training_samples |-> Len(files["train.csv"].X),
                                validation_samples |-> Len(files["validation.csv"].X)])
    /\ UNCHANGED <<model_type, evalPc, asgVars, tfVars, ppVars, infVars, ingVars, selVars, valVars, glVars>>

\* evaluate.py:29-102  evaluate_model up to evaluation_metrics.json: find and load
\* the model (FileNotFoundError without one), score test.csv, compute the metrics
\* (ValueError for test targets of one class) and write them.
EvaluateScore ==
    /\ evalPc = "start"
    /\ trainPc # "start"
    /\ IF "model.pkl" \notin DOMAIN files
       THEN evalPc' = "FileNotFoundError" /\ UNCHANGED <<files, scored>>
       ELSE /\ scored' = scored \cup
                   {ScoringCall("evaluate_model", files["model.pkl"],
                                EvalScoredFile, files[EvalScoredFile])}
            /\ IF ~BothClasses(files[EvalScoredFile].y)
               THEN evalPc' = "ValueError" /\ UNCHANGED files
               ELSE /\ evalPc' = "metrics_written"
                    /\ \E metrics \in MetricGrid :
                          files' = WithFile(files, "evaluation_metrics.json", metrics)
    /\ UNCHANGED <<model_type, trainPc, asgVars, tfVars, ppVars, infVars, ingVars, selVars, valVars, glVars>>

\* evaluate.py:104-134  the recommendation, written to model_approval.json
EvaluateApprove ==
    /\ evalPc = "metrics_written"
    /\ \E metric_type \in MetricTypes :
          LET dumped == DumpedRecommendation(
                            Recommendation(files["evaluation_metrics.json"]), metric_type)
          IN /\ files' = WithFile(files, "model_approval.json", dumped.content)
             /\ evalPc' = IF dumped.raised = "" THEN "done" ELSE dumped.raised
    /\ UNCHANGED <<model_type, trainPc, scored, asgVars, tfVars, ppVars, infVars, ingVars, selVars, valVars, glVars>>

\* The serving container with a model directory and a request.
InferenceInit ==
    /\ modelPkl \in SavableModels \cup {[kind |-> "missing"]}
    /\ request \in [content_type : ContentTypes, body : RequestBodies]
    /\ infPc = "start"
    /\ infModel = [kind |-> "none"]
    /\ input_data = <<>>
    /\ modelOut = [predictions |-> <<>>, probabilities |-> <<>>]
    /\ results = <<>>
    /\ infError = NoError
    /\ response = <<>>

InferenceIdle ==
    /\ modelPkl = [kind |-> "missing"]
    /\ request = [content_type |-> "application/json",
                  body |-> [shape |-> "list", records |-> <<>>]]
    /\ infPc = "idle"
    /\ infModel = [kind |-> "none"]
    /\ input_data = <<>>
    /\ modelOut = [predictions |-> <<>>, probabilities |-> <<>>]
    /\ results = <<>>
    /\ infError = NoError
    /\ response = <<>>

\* model_fn(model_dir): joblib.load of model.pkl, its exception raised again.
ModelFn ==
    /\ infPc = "start"
    /\ IF modelPkl.kind = "missing"
       THEN /\ infPc' = "model_error"
            /\ infError' = [type |-> "FileNotFoundError", message |-> "model.pkl",
                            features |-> <<>>]
            /\ UNCHANGED infModel
       ELSE /\ infPc' = "loaded"
            /\ infModel' = modelPkl
            /\ UNCHANGED infError
    /\ UNCHANGED <<modelPkl, request, input_data, modelOut, results, response>>
    /\ UNCHANGED <<asgVars, tfVars, ppVars, trVars, ingVars, selVars, valVars, glVars>>

\* input_fn(request_body, request_content_type)
InputFn ==
    /\ infPc = "loaded"
    /\ LET r == input_fn(request.body, request.content_type)
       IN IF r.ok
          THEN /\ infPc' = "parsed"
               /\ input_data' = r.df
               /\ UNCHANGED infError
          ELSE /\ infPc' = "input_error"
               /\ infError' = r.error
               /\ UNCHANGED input_data
    /\ UNCHANGED <<modelPkl, request, infModel, modelOut, results, response>>
    /\ UNCHANGED <<asgVars, tfVars, ppVars, trVars, ingVars, selVars, valVars, glVars>>

\* predict_fn(input_data, model): the model's output is any it may give for the
\* rows, and each call of assign_experiment makes its own draw.
PredictFn ==
    /\ infPc = "parsed"
    /\ IF infModel.kind = "Pipeline"
       THEN \E out \in ModelOutputs(Len(input_data)),
               draws \in [1..Len(input_data) -> Draws] :
                /\ modelOut' = out
                /\ results' = PredictionResults(out, draws)
                /\ infPc' = "predicted"
                /\ UNCHANGED infError
       ELSE /\ infPc' = "predict_error"
            /\ infError' = ValueError("Expected a Pipeline model but got standalone classifier",
                                      <<>>)
            /\ UNCHANGED <<modelOut, results>>
    /\ UNCHANGED <<modelPkl, request, infModel, input_data, response>>
    /\ UNCHANGED <<asgVars, tfVars, ppVars, trVars, ingVars, selVars, valVars, glVars>>

\* output_fn(prediction, content_type) for the accept type of the request
OutputFn ==
    /\ infPc = "predicted"
    /\ \E accept \in ContentTypes :
        IF accept = "application/json"
        THEN /\ response' = [content_type |-> accept, body |-> results]
             /\ infPc' = "responded"
             /\ UNCHANGED infError
        ELSE /\ infError' = ValueError("Unsupported content type", <<>>)
             /\ infPc' = "output_error"
             /\ UNCHANGED response
    /\ UNCHANGED <<modelPkl, request, infModel, input_data, modelOut, results>>
    /\ UNCHANGED <<asgVars, tfVars, ppVars, trVars, ingVars, selVars, valVars, glVars>>

NotInvoked ==
    [event |-> <<>>,
     outcome |-> [raised |-> FALSE, exception |-> "", statusCode |-> 0, body |-> <<>>,
                  put_calls |-> 0, written |-> <<>>]]

\* The Lambda deployed with an environment, not yet invoked.
IngestInit ==
    /\ environ \in Environments
    /\ invocations = 0
    /\ clock = 0
    /\ invoked = NotInvoked
    /\ s3Objects = <<>>

IngestIdle ==
    /\ environ = <<>>
    /\ invocations = 0
    /\ clock = 0
    /\ invoked = NotInvoked
    /\ s3Objects = <<>>

\* One invocation of handler(event, context), at the time of the latest
\* invocation or a second later.
Handler ==
    /\ invocations < MaxInvocations
    /\ \E event \in Events, world \in Worlds, now \in {clock, clock + 1} :
        LET outcome == handler(event, environ, world, now)
        IN /\ invoked' = [event |-> event, outcome |-> outcome]
           /\ s3Objects' = PutObjects(s3Objects, outcome.written)
           /\ clock' = now
    /\ invocations' = invocations + 1
    /\ UNCHANGED environ
    /\ UNCHANGED <<asgVars, tfVars, ppVars, trVars, infVars, selVars, valVars, glVars>>

\* handler has read RAW_DATA_BUCKET (index.py:22) and is about to choose the
\* dataset.
SelectInit ==
    /\ selIn \in [event : Events,
                  env : {e \in Environments : "RAW_DATA_BUCKET" \in DOMAIN e},
                  world : Worlds]
    /\ selOut = [dataset_type |-> "", data |-> <<>>]

SelectIdle ==
    /\ selIn = <<>>
    /\ selOut = [dataset_type |-> "", data |-> <<>>]

\* index.py:27-33  the dataset type and the dataset (data.ok FALSE: the call
\* raised)
SelectDataset ==
    /\ selOut.dataset_type = ""
    /\ selOut' = [dataset_type |-> DatasetType(selIn.event, selIn.env),
                  data |-> Dataset(selIn.event, selIn.env, selIn.world)]
    /\ UNCHANGED <<selIn, valVars, glVars>>
    /\ UNCHANGED <<asgVars, tfVars, ppVars, trVars, infVars, ingVars>>

\* A DataFrame about to be validated.
ValidateInit ==
    /\ valIn \in TrialFrames
    /\ valOut = [called |-> FALSE, error |-> NoError]

ValidateIdle ==
    /\ valIn = <<>>
    /\ valOut = [called |-> FALSE, error |-> NoError]

\* _validate_input_data(df): it returns nothing or raises
ValidateInputData ==
    /\ ~valOut.called
    /\ valOut' = [called |-> TRUE, error |-> _validate_input_data(valIn)]
    /\ UNCHANGED <<valIn, selVars, glVars>>
    /\ UNCHANGED <<asgVars, tfVars, ppVars, trVars, infVars, ingVars>>

\* The local variables of main before its first statement.
NoLocals ==
    [sales_df |-> <<>>, customer_df |-> <<>>, product_df |-> <<>>, clean_sales |-> <<>>,
     enriched_sales |-> <<>>, sales_summary |-> {}, customer_insights |-> {}]

\* The catalog tables of a run; the script is at the first statement of main
\* (sample-etl.py:260-261, run as __main__).
GlueInit ==
    /\ catalog \in [sales : SalesTables, customers : CustomerTables, products : ProductTables]
    /\ glPc = Ready(MainSteps[1])
    /\ glLocal = NoLocals
    /\ glSteps = <<>>
    /\ curated = <<>>
    /\ committed = FALSE

GlueIdle ==
    /\ catalog = <<>>
    /\ glPc = [step |-> "idle", raised |-> FALSE]
    /\ glLocal = <<>>
    /\ glSteps = <<>>
    /\ curated = <<>>
    /\ committed = FALSE

\* The step returns: main goes on with the next statement.
Completes(step) ==
    /\ glPc' = StepAfter(step)
    /\ glSteps' = Append(glSteps, step)

\* The step raises (the catalog, Spark or S3 fails, or a name is undefined).
Raises(step) ==
    /\ glPc' = AfterException(step)
    /\ UNCHANGED <<glLocal, glSteps, curated>>

\* sample-etl.py:231  sales_df = read_sales_data()
ReadSalesData ==
    /\ glPc = Ready("read_sales_data")
    /\ \/ Raises("read_sales_data")
       \/ /\ glLocal' = [glLocal EXCEPT !.sales_df = catalog.sales]
          /\ Completes("read_sales_data")
          /\ UNCHANGED curated
    /\ UNCHANGED <<catalog, committed>>
    /\ UNCHANGED <<asgVars, tfVars, ppVars, trVars, infVars, ingVars, selVars, valVars>>

\* sample-etl.py:232  customer_df = read_customer_data()
ReadCustomerData ==
    /\ glPc = Ready("read_customer_data")
    /\ \/ Raises("read_customer_data")
       \/ /\ glLocal' = [glLocal EXCEPT !.customer_df = catalog.customers]
          /\ Completes("read_customer_data")
          /\ UNCHANGED curated
    /\ UNCHANGED <<catalog, committed>>
    /\ UNCHANGED <<asgVars, tfVars, ppVars, trVars, infVars, ingVars, selVars, valVars>>

\* sample-etl.py:233  product_df = read_product_data()
ReadProductData ==
    /\ glPc = Ready("read_product_data")
    /\ \/ Raises("read_product_data")
       \/ /\ glLocal' = [glLocal EXCEPT !.product_df = catalog.products]
          /\ Completes("read_product_data")
          /\ UNCHANGED curated
    /\ UNCHANGED <<catalog, committed>>
    /\ UNCHANGED <<asgVars, tfVars, ppVars, trVars, infVars, ingVars, selVars, valVars>>

\* sample-etl.py:236  clean_sales = clean_sales_data(sales_df)
CleanSalesData ==
    /\ glPc = Ready("clean_sales_data")
    /\ \/ Raises("clean_sales_data")
       \/ /\ \E keep \in DropDuplicatesChoices(glLocal.sales_df) :
                glLocal' = [glLocal EXCEPT
                               !.clean_sales = clean_sales_data(glLocal.sales_df, keep)]
          /\ Completes("clean_sales_data")
          /\ UNCHANGED curated
    /\ UNCHANGED <<catalog, committed>>
    /\ UNCHANGED <<asgVars, tfVars, ppVars, trVars, infVars, ingVars, selVars, valVars>>

\* sample-etl.py:237  enriched_sales = create_enriched_sales(clean_sales, customer_df, product_df)
CreateEnrichedSales ==
    /\ glPc = Ready("create_enriched_sales")
    /\ \/ Raises("create_enriched_sales")
       \/ /\ glLocal' = [glLocal EXCEPT
                            !.enriched_sales =
                                create_enriched_sales(glLocal.clean_sales,
                                                      glLocal.customer_df,
                                                      glLocal.product_df)]
          /\ Completes("create_enriched_sales")
          /\ UNCHANGED curated
    /\ UNCHANGED <<catalog, committed>>
    /\ UNCHANGED <<asgVars, tfVars, ppVars, trVars, infVars, ingVars, selVars, valVars>>

\* sample-etl.py:238  sales_summary = create_sales_summary(enriched_sales)
CreateSalesSummary ==
    /\ glPc = Ready("create_sales_summary")
    /\ \/ Raises("create_sales_summary")
       \/ /\ glLocal' = [glLocal EXCEPT
                            !.sales_summary = create_sales_summary(glLocal.enriched_sales)]
          /\ Completes("create_sales_summary")
          /\ UNCHANGED curated
    /\ UNCHANGED <<catalog, committed>>
    /\ UNCHANGED <<asgVars, tfVars, ppVars, trVars, infVars, ingVars, selVars, valVars>>

\* sample-etl.py:239  customer_insights = create_customer_insights(enriched_sales)
CreateCustomerInsights ==
    /\ glPc = Ready("create_customer_insights")
    /\ \/ Raises("create_customer_insights")
       \/ /\ glLocal' = [glLocal EXCEPT
                            !.customer_insights =
                                create_customer_insights(glLocal.enriched_sales)]
          /\ Completes("create_customer_insights")
          /\ UNCHANGED curated
    /\ UNCHANGED <<catalog, committed>>
    /\ UNCHANGED <<asgVars, tfVars, ppVars, trVars, infVars, ingVars, selVars, valVars>>

\* sample-etl.py:195-225, called at :242-244  write_to_curated(df, table_name,
\* partition_cols): the table is in the curated bucket when the call returns
WriteToCurated ==
    /\ \E k \in DOMAIN CuratedTables :
          LET t == CuratedTables[k]
          IN /\ glPc = Ready(t.step)
             /\ \/ Raises(t.step)
                \/ /\ curated' = Append(curated, [table_name |-> t.table,
                                                  partitionKeys |-> t.partitionKeys,
                                                  df |-> glLocal[t.table]])
                   /\ Completes(t.step)
                   /\ UNCHANGED glLocal
    /\ UNCHANGED <<catalog, committed>>
    /\ UNCHANGED <<asgVars, tfVars, ppVars, trVars, infVars, ingVars, selVars, valVars>>

\* sample-etl.py:246-253  the summary printed after the writes; each count() is
\* a Spark job of its own
PrintSummary ==
    /\ glPc = Ready("print summary")
    /\ \/ Raises("print summary")
       \/ /\ Completes("print summary")
          /\ UNCHANGED <<glLocal, curated>>
    /\ UNCHANGED <<catalog, committed>>
    /\ UNCHANGED <<asgVars, tfVars, ppVars, trVars, infVars, ingVars, selVars, valVars>>

\* sample-etl.py:263  job.commit(), the statement after main() returned
JobCommit ==
    /\ glPc = Ready("job.commit")
    /\ committed' = TRUE
    /\ Completes("job.commit")
    /\ UNCHANGED <<catalog, glLocal, curated>>
    /\ UNCHANGED <<asgVars, tfVars, ppVars, trVars, infVars, ingVars, selVars, valVars>>

NextAssign == AssignExperiment

InitAssign ==
    /\ AssignInit
    /\ TransformerIdle
    /\ PreprocessIdle
    /\ TrainingIdle
    /\ InferenceIdle
    /\ IngestIdle
    /\ SelectIdle
    /\ ValidateIdle
    /\ GlueIdle

SpecAssign == InitAssign /\ [][NextAssign]_vars

NextTransformer == Fit \/ Transform

InitTransformer ==
    /\ AssignIdle
    /\ TransformerInit
    /\ PreprocessIdle
    /\ TrainingIdle
    /\ InferenceIdle
    /\ IngestIdle
    /\ SelectIdle
    /\ ValidateIdle
    /\ GlueIdle

SpecTransformer == InitTransformer /\ [][NextTransformer]_vars

NextBuckets == Fit \/ TransformRow

InitBuckets ==
    /\ AssignIdle
    /\ TransformerInit
    /\ PreprocessIdle
    /\ TrainingIdle
    /\ InferenceIdle
    /\ IngestIdle
    /\ SelectIdle
    /\ ValidateIdle
    /\ GlueIdle

SpecBuckets == InitBuckets /\ [][NextBuckets]_vars

NextPreprocess ==
    \/ PreprocessLoad
    \/ PreprocessSplit
    \/ PreprocessFit
    \/ PreprocessTransform
    \/ PreprocessSave

InitPreprocess ==
    /\ AssignIdle
    /\ TransformerIdle
    /\ PreprocessInit
    /\ TrainingIdle
    /\ InferenceIdle
    /\ IngestIdle
    /\ SelectIdle
    /\ ValidateIdle
    /\ GlueIdle

SpecPreprocess == InitPreprocess /\ [][NextPreprocess]_vars


NextTraining == TrainModel \/ EvaluateScore \/ EvaluateApprove

InitTraining ==
    /\ AssignIdle
    /\ TransformerIdle
    /\ PreprocessIdle
    /\ TrainingInit
    /\ InferenceIdle
    /\ IngestIdle
    /\ SelectIdle
    /\ ValidateIdle
    /\ GlueIdle

SpecTraining == InitTraining /\ [][NextTraining]_vars

NextInference == ModelFn \/ InputFn \/ PredictFn \/ OutputFn

InitInference ==
    /\ AssignIdle
    /\ TransformerIdle
    /\ PreprocessIdle
    /\ TrainingIdle
    /\ InferenceInit
    /\ IngestIdle
    /\ SelectIdle
    /\ ValidateIdle
    /\ GlueIdle

SpecInference == InitInference /\ [][NextInference]_vars

NextIngest == Handler

InitIngest ==
    /\ AssignIdle
    /\ TransformerIdle
    /\ PreprocessIdle
    /\ TrainingIdle
    /\ InferenceIdle
    /\ IngestInit
    /\ SelectIdle
    /\ ValidateIdle
    /\ GlueIdle

SpecIngest == InitIngest /\ [][NextIngest]_vars

NextSelect == SelectDataset

InitSelect ==
    /\ AssignIdle
    /\ TransformerIdle
    /\ PreprocessIdle
    /\ TrainingIdle
    /\ InferenceIdle
    /\ IngestIdle
    /\ SelectInit
    /\ ValidateIdle
    /\ GlueIdle

SpecSelect == InitSelect /\ [][NextSelect]_vars

NextValidate == ValidateInputData

InitValidate ==
    /\ AssignIdle
    /\ TransformerIdle
    /\ PreprocessIdle
    /\ TrainingIdle
    /\ InferenceIdle
    /\ IngestIdle
    /\ SelectIdle
    /\ ValidateInit
    /\ GlueIdle

SpecValidate == InitValidate /\ [][NextValidate]_vars

NextGlue ==
    \/ ReadSalesData
    \/ ReadCustomerData
    \/ ReadProductData
    \/ CleanSalesData
    \/ CreateEnrichedSales
    \/ CreateSalesSummary
    \/ CreateCustomerInsights
    \/ WriteToCurated
    \/ PrintSummary
    \/ JobCommit

InitGlue ==
    /\ AssignIdle
    /\ TransformerIdle
    /\ PreprocessIdle
    /\ TrainingIdle
    /\ InferenceIdle
    /\ IngestIdle
    /\ SelectIdle
    /\ ValidateIdle
    /\ GlueInit

SpecGlue == InitGlue /\ [][NextGlue]_vars

(***************************************************************************)
(* C1                                                                      *)
(***************************************************************************)

\* C1: every assignment assign_experiment returns follows the decision rule:
\* prediction 1 and prob > 0.8 gives premium_features/high, prediction 1 and
\* prob <= 0.8 gives engagement_boost/medium, another prediction and prob > 0.3
\* gives conversion_optimization/medium, another prediction and prob <= 0.3 gives
\* basic_features/low; the variant is A or B; and two calls on the same
\* arguments, whatever their random draws, agree on experiment_type and priority.
C1_DecisionRule ==
    /\ \A i \in 1..Len(asgOut) :
          LET r == asgOut[i]
              p == asgIn.prediction
              q == asgIn.high_value_prob
          IN /\ (p = 1 /\ q > 80) =>
                    (r.experiment_type = "premium_features" /\ r.priority = "high")
             /\ (p = 1 /\ q <= 80) =>
                    (r.experiment_type = "engagement_boost" /\ r.priority = "medium")
             /\ (p # 1 /\ q > 30) =>
                    (r.experiment_type = "conversion_optimization" /\ r.priority = "medium")
             /\ (p # 1 /\ q <= 30) =>
                    (r.experiment_type = "basic_features" /\ r.priority = "low")
             /\ r.variant \in {"A", "B"}
    /\ \A i, j \in 1..Len(asgOut) :
          /\ asgOut[i].experiment_type = asgOut[j].experiment_type
          /\ asgOut[i].priority = asgOut[j].priority

\* Two calls on a high-value prediction at exactly 0.8 got different variants.
C1_Witness ==
    /\ Len(asgOut) = 2
    /\ asgIn.prediction = 1
    /\ asgIn.high_value_prob = 80
    /\ asgOut[1].variant # asgOut[2].variant

(***************************************************************************)
(* C6                                                                      *)
(***************************************************************************)

\* The column of a categorical feature as fit saw it (astype(str) of the
\* engineered training DataFrame).
FittedColumn(feature) ==
    ColumnOf(_create_engineered_features(NewTransformer, trainX), feature)

\* C6: in every transform call, a value of gender, location, age_group or
\* spending_tier that fit saw is encoded with its own code (its position among the
\* sorted distinct training values), and a value fit did not see is encoded with
\* the code of a most frequent class of the training column.
C6_UnseenGetsMostFrequent ==
    \A e \in tfLog : \A i \in DOMAIN e.encoded : \A f \in Range(CategoricalFeatures) :
        LET v == e.encoded[i][f]
            code == e.encoded[i][EncodedName(f)]
            column == FittedColumn(f)
            classes == LabelEncoderFit(column)
        IN IF v \in Range(column)
           THEN code = LabelCode(classes, v)
           ELSE \E m \in MostFrequent(column) : code = LabelCode(classes, m)

(***************************************************************************)
(* C8                                                                      *)
(***************************************************************************)

\* The columns of a row C8 names, as the DataFrame holds them before scaling.
PerRowColumns ==
    {"gender_encoded", "location_encoded", "age_group_encoded",
     "spending_tier_encoded", "age_group", "spending_tier",
     "spend_per_purchase", "session_efficiency"}

\* C8: the transformer is deterministic and works row by row: fitting again on
\* the same training rows leaves the fitted state as one fit from new gives it,
\* and whenever two transform calls (before or after a refit, on the same or on
\* different DataFrames) hold the same input row, that row's output is the same in
\* both, as are its encodings, age group, spending tier, spend_per_purchase and
\* session_efficiency.
C8_DeterministicRowwise ==
    /\ IsFitted(transformer) => transformer = fit(NewTransformer, trainX)
    /\ \A e1, e2 \in tfLog : \A i \in DOMAIN e1.X : \A j \in DOMAIN e2.X :
          e1.X[i] = e2.X[j] =>
              /\ e1.out[i] = e2.out[j]
              /\ \A c \in PerRowColumns : e1.encoded[i][c] = e2.encoded[j][c]

\* After a refit, two transform calls on DataFrames of different size held the
\* same row, whose batch-relative high_value_user flag differed between them.
C8_Witness ==
    /\ fits = 2
    /\ \E e1, e2 \in tfLog : \E i \in DOMAIN e1.X : \E j \in DOMAIN e2.X :
          /\ Len(e1.X) # Len(e2.X)
          /\ e1.X[i] = e2.X[j]
          /\ e1.encoded[i]["high_value_user"] # e2.encoded[j]["high_value_user"]

(***************************************************************************)
(* C7                                                                      *)
(***************************************************************************)

\* The values column c takes in the rows of X at the given positions.
ValuesAt(X, positions, c) == {X[positions[k]][c] : k \in DOMAIN positions}

\* C7: in preprocess_data the first call on the transformer is fit, on the rows
\* of the training split and no others, and it is the only fit; the calls after
\* it are the transforms of the train, validation and test splits in that order;
\* from the fit on, the transformer's fitted parameters are those of the training
\* rows alone (its gender and location classes are the training rows' values, its
\* scaler counts the training rows and sums their ages) and do not change; every
\* scaled split is its raw split under those same encoders and that same scaler;
\* and the transformer written to feature_transformer.pkl is that one.
C7_FitOnTrainOnly ==
    LET train == TakeRows(ppData.X, ppSplit.train)
    IN /\ \A k \in DOMAIN ppCalls :
             IF k = 1
             THEN ppCalls[k].op = "fit" /\ ppCalls[k].X = train
             ELSE /\ ppCalls[k].op = "transform"
                  /\ ppCalls[k].X = TakeRows(ppData.X, ppSplit[SplitNames[k - 1]])
       /\ ppCalls = <<>> => ~IsFitted(feature_transformer)
       /\ ppCalls # <<>> =>
             /\ feature_transformer = fit(NewTransformer, train)
             /\ Range(feature_transformer.label_encoders["gender"])
                    = ValuesAt(ppData.X, ppSplit.train, "gender")
             /\ Range(feature_transformer.label_encoders["location"])
                    = ValuesAt(ppData.X, ppSplit.train, "location")
             /\ feature_transformer.scaler["age"].n = Len(ppSplit.train)
             /\ feature_transformer.scaler["age"].sum
                    = SumSeq([k \in DOMAIN train |-> train[k]["age"]])
       /\ \A name \in DOMAIN ppScaled :
             /\ \E k \in 2..Len(ppCalls) : SplitNames[k - 1] = name
             /\ ppScaled[name]
                    = transform(feature_transformer, TakeRows(ppData.X, ppSplit[name]))
       /\ ppPc = "done" => ppFiles["feature_transformer.pkl"] = feature_transformer

\* preprocess_data has finished, and a test row has a location that no training
\* row has, while a validation row is older than every training row.
C7_Witness ==
    /\ ppPc = "done"
    /\ Len(ppCalls) = 4
    /\ \E i \in Range(ppSplit.test) :
          ppData.X[i]["location"] \notin ValuesAt(ppData.X, ppSplit.train, "location")
    /\ \E i \in Range(ppSplit.validation) :
          \A j \in Range(ppSplit.train) : ppData.X[i]["age"] > ppData.X[j]["age"]

(***************************************************************************)
(* C4 and C5                                                               *)
(***************************************************************************)

\* C4: every dataset handed to the unified pipeline for scoring holds raw
\* features, and the rows every scored classifier receives have had the feature
\* transformation applied exactly once.
C4_PipelineScoresRawOnly ==
    \A c \in scored :
        /\ c.model = "Pipeline" => c.features = "raw"
        /\ c.transforms = 1

\* C5: whenever train_model completes, model.pkl holds a Pipeline exactly when
\* raw_train.csv, raw_validation.csv and feature_transformer.pkl are all present;
\* the Pipeline holds the fitted transformer and a classifier fitted on the raw
\* training features; otherwise model.pkl holds the bare classifier, fitted on the
\* processed train.csv; and the classifier is a RandomForestClassifier for model
\* type random_forest and a LogisticRegression otherwise.
C5_SavedModel ==
    trainPc = "done" =>
        /\ "model.pkl" \in DOMAIN files
        /\ LET m == files["model.pkl"]
           IN /\ m.kind = "Pipeline" <=> OptionalFiles \subseteq DOMAIN files
              /\ m.kind = "Pipeline" =>
                    /\ IsFitted(m.preprocessing)
                    /\ m.fitted_on = "raw_train.csv"
                    /\ files[m.fitted_on].features = "raw"
              /\ m.kind # "Pipeline" =>
                    /\ m.kind = "Classifier"
                    /\ m.preprocessing = <<>>
                    /\ m.fitted_on = "train.csv"
                    /\ files[m.fitted_on].features = "processed"
              /\ m.classifier = IF model_type = "random_forest"
                                THEN "RandomForestClassifier"
                                ELSE "LogisticRegression"

\* train_model completed with all three files present and saved a Pipeline
\* around a LogisticRegression.
C5_Witness ==
    /\ trainPc = "done"
    /\ OptionalFiles \subseteq DOMAIN files
    /\ files["model.pkl"].kind = "Pipeline"
    /\ files["model.pkl"].classifier = "LogisticRegression"

(***************************************************************************)
(* C2 and C3                                                               *)
(***************************************************************************)

\* C2: for a Pipeline model and an input of n rows predict_fn does not raise and
\* returns n results, the k-th (from 0) with user_index k; its predicted_bucket is
\* high_value exactly when the model's prediction for that row is 1 and standard
\* otherwise; its confidence is the probability of the predicted class; and its
\* experiment_assignment is one assign_experiment gives for that row's prediction
\* and high-value probability.
C2_PredictResults ==
    /\ infPc = "predict_error" => infModel.kind # "Pipeline"
    /\ (infModel.kind = "Pipeline" /\ infPc \in {"predicted", "responded", "output_error"}) =>
          /\ Len(results) = Len(input_data)
          /\ \A k \in 1..Len(input_data) :
                LET r == results[k]
                    pred == modelOut.predictions[k]
                    prob == modelOut.probabilities[k]
                IN /\ r.user_index = k - 1
                   /\ r.predicted_bucket = "high_value" <=> pred = 1
                   /\ r.predicted_bucket = "standard" <=> pred # 1
                   /\ r.confidence = IF pred = 1 THEN prob[2] ELSE prob[1]
                   /\ \E draw \in Draws :
                         r.experiment_assignment = assign_experiment(pred, prob[2], draw)

\* predict_fn returned two results from a Pipeline: the first row predicted 0
\* with a high-value probability of 0.8, the second predicted 1.
C2_Witness ==
    /\ infPc = "predicted"
    /\ infModel.kind = "Pipeline"
    /\ Len(results) = 2
    /\ modelOut.predictions = <<0, 1>>
    /\ modelOut.probabilities[1] = <<20, 80>>
    /\ results[1].confidence = 20

\* C3: whichever model.pkl train_model saved and model_fn loaded, the unified
\* Pipeline or the bare classifier, predict_fn does not raise.
C3_LoadedModelPredicts ==
    infModel.kind \in {"Pipeline", "Classifier"} => infPc # "predict_error"

(***************************************************************************)
(* C9                                                                      *)
(***************************************************************************)

\* The required raw features that no record of the request has.
AbsentFeatures ==
    {f \in Range(required_raw_features) :
        \A i \in DOMAIN request.body.records : f \notin DOMAIN request.body.records[i]}

\* C9: once input_fn has run, a content type other than application/json has
\* raised ValueError and returned no data; and a JSON request that lacks any of
\* the ten required raw features has raised the missing-features ValueError,
\* whatever values it holds, naming exactly the absent features, and returned no
\* data.
C9_InputErrors ==
    infPc \notin {"idle", "start", "model_error", "loaded"} =>
        /\ request.content_type # "application/json" =>
              /\ infPc = "input_error"
              /\ infError.type = "ValueError"
              /\ infError.message = "Unsupported content type"
              /\ input_data = <<>>
        /\ (/\ request.content_type = "application/json"
            /\ request.body.shape # "malformed"
            /\ AbsentFeatures # {}) =>
              /\ infPc = "input_error"
              /\ infError.type = "ValueError"
              /\ infError.message = "Missing required features"
              /\ Range(infError.features) = AbsentFeatures
              /\ Len(infError.features) = Cardinality(AbsentFeatures)
              /\ input_data = <<>>

\* input_fn raised for a request without gender and location whose
\* engagement_score is above the maximum validation allows.
C9_Witness ==
    /\ infPc = "input_error"
    /\ request.content_type = "application/json"
    /\ AbsentFeatures = {"gender", "location"}
    /\ \E i \in DOMAIN request.body.records :
          request.body.records[i]["engagement_score"] = JNum(101)
    /\ infError.features = <<"gender", "location">>

(***************************************************************************)
(* C10                                                                     *)
(***************************************************************************)

\* C10: after an invocation with RAW_DATA_BUCKET set the handler has returned a
\* response and not raised; statusCode 200 comes with no exception and one
\* put_object call, whose object is in S3 at data_location, with records_generated
\* the rows of the dataset and the timestamp; an exception in dataset creation,
\* to_csv or put_object, and a missing KMS_KEY_ID, give statusCode 500 with the
\* exception's text and nothing written; and no invocation calls put_object twice
\* or writes two objects.
C10_HandlerResponse ==
    (invocations > 0 /\ "RAW_DATA_BUCKET" \in DOMAIN environ) =>
        LET o == invoked.outcome
        IN /\ ~o.raised
           /\ o.statusCode \in {200, 500}
           /\ o.statusCode = 200 =>
                 /\ o.exception = ""
                 /\ "KMS_KEY_ID" \in DOMAIN environ
                 /\ o.put_calls = 1
                 /\ Len(o.written) = 1
                 /\ o.body.data_location
                        = [bucket |-> environ.RAW_DATA_BUCKET, key |-> o.written[1].Key]
                 /\ o.body.data_location \in DOMAIN s3Objects
                 /\ s3Objects[o.body.data_location] = o.written[1]
                 /\ o.body.records_generated = o.written[1].Body
                 /\ o.body.timestamp = clock
           /\ (o.exception # "" \/ "KMS_KEY_ID" \notin DOMAIN environ) =>
                 /\ o.statusCode = 500
                 /\ o.body = [error |-> o.exception]
                 /\ o.exception # ""
                 /\ o.written = <<>>
           /\ o.put_calls <= 1
           /\ Len(o.written) <= 1
           /\ Cardinality(DOMAIN s3Objects) <= invocations

\* An invocation whose put_object failed returned 500 after an earlier one had
\* written its object.
C10_Witness ==
    /\ invocations = 2
    /\ "RAW_DATA_BUCKET" \in DOMAIN environ
    /\ invoked.outcome.statusCode = 500
    /\ invoked.outcome.body.error = "put_object failed"
    /\ Cardinality(DOMAIN s3Objects) = 1

(***************************************************************************)
(* C11                                                                     *)
(***************************************************************************)

\* C11: once the dataset is selected, the dataset type is the event's when the
\* event has one, else DEFAULT_DATASET_TYPE when set, else amazon-reviews; the
\* selection raises only when a call of generate_user_bucketing_data raised, never
\* because the download or the transformation of the reviews failed; synthetic
\* and every unknown name give the synthetic dataset; amazon-reviews gives the
\* transformed reviews when they could be fetched and transformed, and the
\* synthetic dataset when they could not.
C11_DatasetSelection ==
    selOut.dataset_type # "" =>
        LET event == selIn.event
            env == selIn.env
            w == selIn.world
            dt == selOut.dataset_type
            data == selOut.data
            synthetic == [rows |-> DefaultNumUsers, source |-> "synthetic"]
            got == [rows |-> data.rows, source |-> data.source]
        IN /\ "dataset_type" \in DOMAIN event => dt = event.dataset_type
           /\ ("dataset_type" \notin DOMAIN event /\ "DEFAULT_DATASET_TYPE" \in DOMAIN env) =>
                 dt = env.DEFAULT_DATASET_TYPE
           /\ ("dataset_type" \notin DOMAIN event /\ "DEFAULT_DATASET_TYPE" \notin DOMAIN env) =>
                 dt = "amazon-reviews"
           /\ (\A k \in DOMAIN w.generate : w.generate[k]) => data.ok
           /\ ~data.ok => \E k \in DOMAIN w.generate : ~w.generate[k]
           /\ (data.ok /\ dt # "amazon-reviews") => got = synthetic
           /\ (data.ok /\ dt = "amazon-reviews" /\ ~w.network) => got = synthetic
           /\ (data.ok /\ dt = "amazon-reviews" /\ w.network /\ w.profiles >= MinAmazonUsers) =>
                 got = [rows |-> w.profiles, source |-> "amazon-reviews"]
           /\ (data.ok /\ dt = "amazon-reviews" /\ w.network /\ w.profiles < MinAmazonUsers
                 /\ w.generate[1]) =>
                 got = [rows |-> SupplementedUsers, source |-> "amazon-reviews"]

\* Without a dataset type in the event or the environment the reviews were
\* chosen, their download failed, and the synthetic dataset came back.
C11_Witness ==
    /\ selOut.dataset_type = "amazon-reviews"
    /\ "dataset_type" \notin DOMAIN selIn.event
    /\ "DEFAULT_DATASET_TYPE" \notin DOMAIN selIn.env
    /\ ~selIn.world.network
    /\ selOut.data.ok
    /\ selOut.data.source = "synthetic"

(***************************************************************************)
(* C12                                                                     *)
(***************************************************************************)

\* C12: model_approval.json is written only after evaluation_metrics.json; and
\* once evaluate_model has written the metrics and gone on to the approval, it
\* ends with model_approval.json holding the recommendation: approve_model true
\* with reason 'All criteria met' exactly when accuracy >= 0.75, precision >= 0.70,
\* recall >= 0.65 and AUC >= 0.80, and approve_model false with reason 'Some
\* criteria not met' otherwise.
C12_ApprovalRule ==
    /\ "model_approval.json" \in DOMAIN files => "evaluation_metrics.json" \in DOMAIN files
    /\ ("evaluation_metrics.json" \in DOMAIN files /\ evalPc # "metrics_written") =>
          /\ evalPc = "done"
          /\ "model_approval.json" \in DOMAIN files
          /\ LET metrics == files["evaluation_metrics.json"]
                 approval == files["model_approval.json"]
                 pass == /\ metrics.accuracy >= 75
                         /\ metrics.precision >= 70
                         /\ metrics.recall >= 65
                         /\ metrics.auc >= 80
             IN /\ ~approval.truncated
                /\ approval.approve_model = pass
                /\ approval.recommendation_reason
                      = IF pass THEN "All criteria met" ELSE "Some criteria not met"

(***************************************************************************)
(* C13                                                                     *)
(***************************************************************************)

\* The names of the tables in the curated bucket, in the order written.
CuratedNames == [i \in DOMAIN curated |-> curated[i].table_name]

\* The steps of main before step, in order.
StepsBefore(step) == SubSeq(MainSteps, 1, IndexOf(MainSteps, step) - 1)

\* C13: the job is one fixed sequence of steps: the three reads, the cleaning,
\* the enrichment, the two aggregations, then the writes of enriched_sales,
\* sales_summary and customer_insights in that order.  The steps done are always
\* exactly the steps before the current one; after an exception in a step the
\* steps done stay those before it and the job is never committed; a committed
\* job has written all three tables.
C13_LinearJob ==
    /\ glPc.step \in Range(MainSteps) => glSteps = StepsBefore(glPc.step)
    /\ glPc = Finished => glSteps = MainSteps
    /\ CuratedNames = SelectSeq(<<"enriched_sales", "sales_summary", "customer_insights">>,
                                LAMBDA t : \E k \in DOMAIN CuratedTables :
                                              /\ CuratedTables[k].table = t
                                              /\ CuratedTables[k].step \in Range(glSteps))
    /\ glPc.raised => ~committed /\ glPc.step # "job.commit"
    /\ committed =>
          /\ CuratedNames = <<"enriched_sales", "sales_summary", "customer_insights">>
          /\ \A k \in DOMAIN curated : curated[k].df = glLocal[curated[k].table_name]

\* A job committed after its three writes of tables that are not empty.
C13_Witness ==
    /\ committed
    /\ CuratedNames = <<"enriched_sales", "sales_summary", "customer_insights">>
    /\ glLocal.enriched_sales # <<>>

(***************************************************************************)
(* C19                                                                     *)
(***************************************************************************)

\* The columns of the sales table.
SalesColumns == DOMAIN SalePool[1]

\* C19: the cleaned sales are rows of the sales table, one at most of each
\* transaction_id, each with total_amount > 0, quantity > 0 and a
\* transaction_date; every cleaned sale is in the enriched sales, with or
\* without a customer or a product of its own; a sale without a customer has a
\* null total_lifetime_value and is_high_value_customer = False.
C19_CleanAndEnrich ==
    LET clean == glLocal.clean_sales
        enriched == glLocal.enriched_sales
    IN /\ "clean_sales_data" \in Range(glSteps) =>
             \A i \in DOMAIN clean :
                /\ Restrict(clean[i], SalesColumns) \in Range(glLocal.sales_df)
                /\ clean[i].total_amount > 0
                /\ clean[i].quantity > 0
                /\ ~IsNull(clean[i].transaction_date)
                /\ \A j \in DOMAIN clean :
                      clean[j].transaction_id = clean[i].transaction_id => j = i
       /\ "create_enriched_sales" \in Range(glSteps) =>
             /\ \A i \in DOMAIN clean :
                   \E k \in DOMAIN enriched : Restrict(enriched[k], DOMAIN clean[i]) = clean[i]
             /\ \A k \in DOMAIN enriched :
                   /\ (\A c \in Range(glLocal.customer_df) :
                          c.customer_id # enriched[k].customer_id)
                         => IsNull(enriched[k].total_lifetime_value)
                   /\ IsNull(enriched[k].total_lifetime_value)
                         => enriched[k].is_high_value_customer = FALSE

\* Enriched sales that hold a sale of a customer who is in no row of a
\* customer table that is not empty, and a sale of no product.
C19_Witness ==
    /\ "create_enriched_sales" \in Range(glSteps)
    /\ glLocal.customer_df # <<>>
    /\ \E k \in DOMAIN glLocal.enriched_sales :
          LET row == glLocal.enriched_sales[k]
          IN /\ row.customer_id = 11
             /\ IsNull(row.total_lifetime_value)
             /\ row.brand = None
             /\ ~row.is_high_value_customer
    /\ Len(glLocal.clean_sales) < Len(glLocal.sales_df)

(***************************************************************************)
(* C14                                                                     *)
(***************************************************************************)

\* The file of the processed rows of each split.
ProcessedFile == [train |-> "train.csv", validation |-> "validation.csv", test |-> "test.csv"]

\* C14: the target of a row is 1 exactly when its engagement_score is above the
\* 0.7 quantile and its total_spent above the 0.6 quantile of the whole input
\* CSV, and 0 otherwise; each row of train.csv, validation.csv and test.csv is
\* the transformed row of the input its split put there, with that target.
C14_TargetLabels ==
    /\ ppData # <<>> =>
          \A p \in DOMAIN inputCsv :
             ppData.y[p] = 1 <=>
                /\ AboveQuantile(inputCsv[p].engagement_score,
                                 ColumnOf(inputCsv, "engagement_score"), 7)
                /\ AboveQuantile(inputCsv[p].total_spent,
                                 ColumnOf(inputCsv, "total_spent"), 6)
    /\ ppData # <<>> => \A p \in DOMAIN inputCsv : ppData.y[p] \in {0, 1}
    /\ ppPc = "done" =>
          \A name \in Range(SplitNames) :
             LET f == ppFiles[ProcessedFile[name]]
             IN /\ DOMAIN f.y = DOMAIN ppSplit[name]
                /\ DOMAIN f.X = DOMAIN ppSplit[name]
                /\ \A k \in DOMAIN f.y :
                      LET p == ppSplit[name][k]
                      IN /\ f.y[k] = ppData.y[p]
                         /\ f.X[k] = transform(feature_transformer, <<ppData.X[p]>>)[1]

\* The files are written, and the test and the training file hold both targets.
C14_Witness ==
    /\ ppPc = "done"
    /\ Range(ppFiles["test.csv"].y) = {0, 1}
    /\ Range(ppFiles["train.csv"].y) = {0, 1}

(***************************************************************************)
(* C15                                                                     *)
(***************************************************************************)

\* C15: what transform returns has exactly the 14 feature columns, in the order
\* fit fixed; it has one row for each input row, under the input's index; no
\* cell of it is missing; high_value_user is not one of its columns.
C15_OutputShape ==
    \A e \in tfLog :
        /\ e.out_columns = FeatureColumns
        /\ Len(e.out_columns) = 14
        /\ "high_value_user" \notin Range(e.out_columns)
        /\ DOMAIN e.out = DOMAIN e.X
        /\ e.out_index = e.index
        /\ \A i \in DOMAIN e.out :
              /\ DOMAIN e.out[i] = Range(e.out_columns)
              /\ \A c \in DOMAIN e.out[i] : ~IsNaN(e.out[i][c].num)

\* A transform call on two rows that are not neighbours, one of them without an
\* age; the DataFrame transform works on holds high_value_user.
C15_Witness ==
    \E e \in tfLog :
        /\ Len(e.X) = 2
        /\ e.index[2] # e.index[1] + 1
        /\ \E i \in DOMAIN e.X : IsNaN(e.X[i].age)
        /\ \A i \in DOMAIN e.X : "high_value_user" \in DOMAIN e.encoded[i]

(***************************************************************************)
(* C17                                                                     *)
(***************************************************************************)

\* C17: a transform call on a fitted transformer leaves the caller's DataFrame
\* and the fitted state (encoders, scaler, feature columns, age and spending
\* bins) as they were; calls on the same input return the same output, however
\* many calls there are and in whatever order.
C17_TransformIsPure ==
    /\ \A e \in tfLog :
          /\ e.X_after = e.X
          /\ e.self_after = e.self
          /\ e.self = fit(NewTransformer, trainX)
    /\ \A e1, e2 \in tfLog :
          e1.X = e2.X => e1.out = e2.out /\ e1.out_index = e2.out_index
    /\ tfLog # {} => transformer = fit(NewTransformer, trainX)

\* Two transform calls on different DataFrames, then the state still as fitted.
C17_Witness ==
    /\ Cardinality(tfLog) = 2
    /\ fits = 1
    /\ transformer.age_bins = AgeBins
    /\ transformer.spending_bins = SpendingBins
    /\ \E e \in tfLog : \E i \in DOMAIN e.X :
          DOMAIN e.encoded[i] # DOMAIN e.X[i]

(***************************************************************************)
(* C18                                                                     *)
(***************************************************************************)

\* The numeric features with the ranges the claim gives them (percent for the
\* two rates), and the features that only must not be negative.
ClaimedMax == [age |-> 120, engagement_score |-> 100, historical_conversion_rate |-> 100]

NumericFeatures ==
    {"age", "session_count", "avg_session_duration", "page_views", "purchase_history",
     "total_spent", "engagement_score", "historical_conversion_rate"}

\* A cell of a numeric feature that is no number (a string or None), or a
\* number outside the feature's range.
NotNumeric(v) == "str" \in DOMAIN v \/ "null" \in DOMAIN v

OutOfRange(v, c) ==
    /\ "num" \in DOMAIN v
    /\ \/ v.num < 0
       \/ c \in DOMAIN ClaimedMax /\ v.num > ClaimedMax[c]

\* C18: _validate_input_data raises ValueError when a cell of a numeric feature
\* is not a number, or is below 0, or is above 120 for age and above 1 for
\* engagement_score and historical_conversion_rate; when every numeric cell is a
\* number within its range, the ends included, and gender and location are
\* strings, it raises nothing, whatever the gender string is.
C18_ValidationRules ==
    valOut.called =>
       /\ (\E i \in DOMAIN valIn : \E c \in NumericFeatures :
              NotNumeric(valIn[i][c]) \/ OutOfRange(valIn[i][c], c))
             => valOut.error.type = "ValueError"
       /\ (\A i \in DOMAIN valIn :
              /\ \A c \in NumericFeatures :
                    ~NotNumeric(valIn[i][c]) /\ ~OutOfRange(valIn[i][c], c)
              /\ "str" \in DOMAIN valIn[i].gender
              /\ "str" \in DOMAIN valIn[i].location)
             => valOut.error = NoError

\* A DataFrame with a gender outside the recognised list was validated and
\* nothing was raised.
C18_Witness ==
    /\ valOut.called
    /\ valOut.error = NoError
    /\ \E i \in DOMAIN valIn : valIn[i].gender = JStr("Other")

(***************************************************************************)
(* C16                                                                     *)
(***************************************************************************)

\* C16: in every transformed row, an age in (0,25] is 'young', in (25,35]
\* 'adult', in (35,50] 'middle_aged', in (50,100] 'senior'; a total_spent of 0 is
\* 'none', in (0,50] 'low', in (50,200] 'medium', above 200 'high', so every
\* total_spent >= 0 has one tier; an age of 0 or above 100 and up to 120 passes
\* the input validation, has no age group (astype(str) gives 'nan'), which is no
\* class of the fitted age_group encoder, and gets the code of the fallback, the
\* encoder's first class.
C16_Buckets ==
    \A e \in tfLog : \A i \in DOMAIN e.X :
        LET age == e.X[i].age
            spent == e.X[i].total_spent
            group == e.encoded[i].age_group
            tier == e.encoded[i].spending_tier
            classes == e.self.label_encoders["age_group"]
        IN /\ (0 < age /\ age <= 25) => group = "young"
           /\ (25 < age /\ age <= 35) => group = "adult"
           /\ (35 < age /\ age <= 50) => group = "middle_aged"
           /\ (50 < age /\ age <= 100) => group = "senior"
           /\ spent = 0 => tier = "none"
           /\ (0 < spent /\ spent <= 50) => tier = "low"
           /\ (50 < spent /\ spent <= 200) => tier = "medium"
           /\ 200 < spent => tier = "high"
           /\ spent >= 0 => tier \in {"none", "low", "medium", "high"}
           /\ (age = 0 \/ (100 < age /\ age <= 120)) =>
                 /\ _validate_input_data(<<JsonUser(e.X[i])>>) = NoError
                 /\ group = "nan"
                 /\ "nan" \notin Range(classes)
                 /\ e.encoded[i].age_group_encoded = LabelCode(classes, classes[1])

\* A row of age 0 or 101 with a total_spent of 0 or 200 was transformed and
\* has no age group.
C16_Witness ==
    \E e \in tfLog :
        /\ e.X[1].age \in {0, 101}
        /\ e.X[1].total_spent \in {0, 200}
        /\ e.encoded[1].age_group = "nan"

====
